---- MODULE Spec2Model ----
(***************************************************************************)
(* State-machine model of the end-to-end-encryption chat backend:          *)
(*   - key distribution    (src/src/services/keyService.js, PreKey.js)     *)
(*   - message delivery    (MessageService in src/src/services/            *)
(*                          authService.js, Message / Room models)         *)
(*   - presence / gateway  (PresenceService, WebSocketServer,              *)
(*                          WebSocketHandlers)                             *)
(* The stores (MongoDB collections, Redis keys, the pub/sub bus) are the   *)
(* shared variables; every `await` of a handler is a point where other     *)
(* handlers, possibly of other processes, may run, so a handler with       *)
(* several store calls is a sequence of steps of a call slot.              *)
(***************************************************************************)
EXTENDS Integers, Sequences, FiniteSets, TLC

\* ------------------------------------------------------------------ bounds
MaxTime == 1
MaxKeyId == 2
MaxPreKeyDocs == 2
MaxCalls == 3
MaxMsgDocs == 2
MaxSyncDocs == 3
MaxPublished == 3
MaxBusy == 2
MaxMissed == 3

\* --------------------------------------------------------- program constants
\* PREKEY_EXPIRATION_DAYS (default 30 days), in clock ticks
PreKeyTTL == 1
\* PRESENCE_TIMEOUT (60 seconds), in clock ticks
PresenceTimeout == 1
\* settings.maxParticipants (default 256)
MaxParticipants == 256
\* the cap of getOfflineMessages, limit(1000), scaled to the message counts of the runs
OfflineLimit == 2

\* ------------------------------------------------------------------ domains
Users == {"A", "B", "C"}
DeviceIds == {"d1", "d2"}
None == "none"
PubKeys == {"k1", "k2"}
KeyIds == 1..MaxKeyId
\* the users that own devices and key material in the key-distribution runs
KeyOwners == {"A"}
\* the users that fetch bundles; each has one call slot (GET /api/keys/user/:userId)
KeyCallers == {"B", "C"}
\* the devices that upload one-time prekeys in the key-distribution runs
PoolDevices == {"d1"}

VARIABLES
    now,            \* the wall clock (new Date(), Date.now())
    devices,        \* Device collection: [userId, deviceId] -> record, or absent
    identityKeys,   \* User.identityPublicKey per user
    prekeys,        \* PreKey collection: a set of documents
    nextPreKeyId,   \* the next PreKey _id
    regCount,       \* the count the last registerPreKeys call returned
    gk,             \* the getUserKeys calls in flight, one per call slot
    fetchLog,       \* per device, the oneTimePreKey (_id, 0 for null) of each returned
                    \* bundle, in order of return
    rd,             \* the registerDeviceKeys calls in flight, one per call slot
    rt,             \* the rotateDeviceKeys call in flight
    dc,             \* the login, logout and revokeDevice calls in flight, one of a kind
    rooms,          \* Room collection: roomId -> record, or absent
    messages,       \* Message collection: a set of documents
    sm,             \* the sendMessage calls in flight, one per call slot
    smRes,          \* the sendMessage call that ended last and what it returned or threw
    chat,           \* per socket, the position of the message frame being handled
    ak,             \* the markDelivered / markRead / bulkUpdateStatus calls in flight
    delRes,         \* the deleteMessage call that ended last and how it ended
    offRes,         \* the getOfflineMessages request under way and what it returns
    socks,          \* the sockets a server process accepted, each with the position
                    \* of its connection / close handling
    clients,        \* per process, the registry this.clients:
                    \* `${userId}:${deviceId}` -> socket
    presence,       \* Redis presence markers: [userId, deviceId] -> expiry, or unset
    users,          \* User.isActive, User.isOnline and User.lastSeen per user
    published,      \* the events published on the 'presence' channel, in order
    hb,             \* per socket, the position of the heartbeat frame being handled
    msgEvents,      \* the events published on the 'messages' channel, in order
    bus,            \* per process, the 'messages' events its subscriber has yet to handle
    frames,         \* per socket, the messageId of each new_message frame sent to it
    sd,             \* per process, the position of gracefulShutdown
    typing,         \* Redis typing markers: [conversationType, conversationId, userId]
                    \* -> when it was set and its TTL, or unset
    fr,             \* the typing, stop_typing and receipt frames being handled, one
                    \* per handler slot
    sideEvents,     \* the events published on 'receipts' and 'typing:*', in order
    sideBus,        \* per process, the 'receipts' and 'typing:*' events its
                    \* subscribers have yet to handle
    sideFrames,     \* per socket, the receipt and typing frames sent to it
    keyRes          \* the answer to the POST /api/keys/register request that ended last

\* the typing markers, the receipts and their fan-out, and the answer of the key
\* registration route
sideVars == <<typing, fr, sideEvents, sideBus, sideFrames, keyRes>>

\* the calls of the key and auth services that are followed step by step
callVars == <<rd, rt, dc>>

keyVars == <<devices, identityKeys, prekeys, nextPreKeyId, regCount, gk, fetchLog, callVars>>

msgVars == <<rooms, messages, sm, smRes, chat, ak, offRes, delRes>>

\* the state of the gateway beside the connections and their presence
\* the fan-out of the 'messages' channel
busVars == <<msgEvents, bus, frames>>

gwVars == <<hb, busVars, sd>>

wsVars == <<socks, clients, presence, users, published, gwVars>>

vars == <<now, sideVars, devices, identityKeys, prekeys, nextPreKeyId, regCount, gk,
          fetchLog, callVars, rooms, messages, sm, smRes, chat, ak, offRes, delRes,
          socks, clients, presence, users, published, gwVars>>

\* ------------------------------------------------------------------ helpers
Range(s) == {s[i] : i \in DOMAIN s}

SeqsUpTo(S, n) == UNION {[1..k -> S] : k \in 0..n}

Min(S) == CHOOSE x \in S : \A y \in S : x <= y

Max(S) == CHOOSE x \in S : \A y \in S : y <= x

DevKeys == Users \X DeviceIds

NoDevice == [exists |-> FALSE, publicKey |-> None, signedPreKey |-> None,
             isActive |-> FALSE, isRevoked |-> FALSE]

\* ------------------------------------------------------------ PreKey model
\* documents of (userId, deviceId)
PoolOf(u, d) == {k \in prekeys : k.userId = u /\ k.deviceId = d}

\* the filter of getAvailablePreKey and of getPreKeyStats().available
IsAvailable(k) == ~k.isUsed /\ k.expiresAt > now

\* a faulty variant: the query forgets isUsed: false
getAvailablePreKey_IgnoresUsed(u, d) ==
    LET avail == {k \in PoolOf(u, d) : k.expiresAt > now}
    IN  {k \in avail : \A o \in avail : k.createdAt <= o.createdAt}

\* PreKey.getAvailablePreKey: findOne({isUsed:false, expiresAt > now}).sort({createdAt:1});
\* the documents findOne may return (any of the oldest), empty when there is none
getAvailablePreKey(u, d) ==
    LET avail == {k \in PoolOf(u, d) : IsAvailable(k)}
    IN  {k \in avail : \A o \in avail : k.createdAt <= o.createdAt}

\* preKey.markAsUsed(usedByUserId) followed by save(): an update by _id of the
\* modified paths; the set of documents after the save
markAsUsed(id, usedByUserId) ==
    {IF k.id = id THEN [k EXCEPT !.isUsed = TRUE, !.usedBy = usedByUserId] ELSE k
       : k \in prekeys}

\* KeyService.getPreKeyStats
getPreKeyStats(u, d) ==
    [total     |-> Cardinality(PoolOf(u, d)),
     available |-> Cardinality({k \in PoolOf(u, d) : IsAvailable(k)}),
     used      |-> Cardinality({k \in PoolOf(u, d) : k.isUsed}),
     expired   |-> Cardinality({k \in PoolOf(u, d) : k.expiresAt <= now})]

\* a faulty variant: no unique index on (userId, deviceId, keyId)
NewKeyIds_NoUniqueIndex(u, d, batch) == {batch[i].keyId : i \in DOMAIN batch}

\* the keyIds of a batch that the unique index (userId, deviceId, keyId) lets in
NewKeyIds(u, d, batch) ==
    {batch[i].keyId : i \in DOMAIN batch} \ {k.keyId : k \in PoolOf(u, d)}

\* insertMany(docs, {ordered: false}): of the batch entries that share a keyId one is
\* stored (the server may take them in any order); w picks it
Winners(u, d, batch) ==
    {w \in [NewKeyIds(u, d, batch) -> DOMAIN batch] :
        \A k \in DOMAIN w : batch[w[k]].keyId = k}

\* the documents PreKey.insertMany stores for a batch
insertMany(u, d, batch, w) ==
    {[id        |-> nextPreKeyId + Cardinality({j \in DOMAIN w : j < k}),
      userId    |-> u,
      deviceId  |-> d,
      keyId     |-> k,
      publicKey |-> batch[w[k]].publicKey,
      isUsed    |-> FALSE,
      usedBy    |-> None,
      expiresAt |-> now + PreKeyTTL,
      createdAt |-> now] : k \in DOMAIN w}

\* the request bodies of the runs: the keyIds first..last in order, or one keyId twice
\* (a batch that collides with itself), all with the publicKey pk
Batch(first, last, pk) == [i \in 1..(last - first + 1) |-> [keyId |-> first + i - 1, publicKey |-> pk]]

Twice(k, pk) == <<[keyId |-> k, publicKey |-> pk], [keyId |-> k, publicKey |-> pk]>>

Batches(pk) == {Batch(a, b, pk) : a \in KeyIds, b \in KeyIds} \cup {Twice(k, pk) : k \in KeyIds}

\* KeyService.registerPreKeys: duplicate-key errors (E11000) are swallowed
registerPreKeys(u, d, batch, w) ==
    /\ nextPreKeyId + Cardinality(DOMAIN w) - 1 <= MaxPreKeyDocs
    /\ prekeys' = prekeys \cup insertMany(u, d, batch, w)
    /\ nextPreKeyId' = nextPreKeyId + Cardinality(DOMAIN w)
    /\ regCount' = Len(batch)

\* POST /api/keys/prekeys
UploadPreKeys(u, d, batch) ==
    /\ Len(batch) > 0
    /\ devices[<<u, d>>].exists /\ ~devices[<<u, d>>].isRevoked
    /\ \E w \in Winners(u, d, batch) : registerPreKeys(u, d, batch, w)
    /\ UNCHANGED <<now, sideVars, devices, identityKeys, gk, fetchLog, msgVars, wsVars, callVars>>

\* KeyService.isValidBase64 on the key encodings of the model
isValidBase64(str) == str \in PubKeys

\* deviceSchema.deviceId is unique on its own: a device document of (u, d) can be
\* inserted when no other user's device has the deviceId
CanInsertDevice(u, d) == \A o \in Users \ {u} : ~devices[<<o, d>>].exists

\* KeyService.registerDeviceKeys, a call that no other call interleaves with
registerDeviceKeys(u, d, publicKey, identityPublicKey, batch) ==
    /\ isValidBase64(publicKey)
    /\ devices[<<u, d>>].exists \/ CanInsertDevice(u, d)
    /\ devices' = [devices EXCEPT ![<<u, d>>] =
                     [@ EXCEPT !.exists = TRUE, !.publicKey = publicKey,
                               !.signedPreKey = publicKey, !.isActive = TRUE]]
    /\ identityKeys' =
         IF identityPublicKey # None /\ identityKeys[u] = None
         THEN [identityKeys EXCEPT ![u] = identityPublicKey]
         ELSE identityKeys
    /\ IF Len(batch) > 0
       THEN \E w \in Winners(u, d, batch) : registerPreKeys(u, d, batch, w)
       ELSE UNCHANGED <<prekeys, nextPreKeyId, regCount>>
    /\ UNCHANGED <<now, typing, fr, sideEvents, sideBus, sideFrames, gk, fetchLog, msgVars,
                   wsVars, callVars>>

\* registerDeviceKeys called outside the key registration route of the runs
RegisterDeviceKeys(u, d, publicKey, identityPublicKey, batch) ==
    /\ registerDeviceKeys(u, d, publicKey, identityPublicKey, batch)
    /\ UNCHANGED keyRes

\* KeyService.cleanupExpiredPreKeys: deleteMany({$or: [expired, isUsed]})
CleanupExpiredPreKeys(u, d) ==
    /\ \E k \in PoolOf(u, d) : k.expiresAt <= now \/ k.isUsed
    /\ prekeys' = {k \in prekeys :
                     ~(k.userId = u /\ k.deviceId = d /\ (k.expiresAt <= now \/ k.isUsed))}
    /\ UNCHANGED <<now, sideVars, devices, identityKeys, nextPreKeyId, regCount, gk, fetchLog, msgVars, wsVars, callVars>>

\* the store's TTL index on expiresAt (expireAfterSeconds: 0) removes a dead document
PreKeyTtlSweep ==
    /\ \E k \in prekeys : k.expiresAt <= now
    /\ prekeys' = {k \in prekeys : k.expiresAt > now}
    /\ UNCHANGED <<now, sideVars, devices, identityKeys, nextPreKeyId, regCount, gk, fetchLog, msgVars, wsVars, callVars>>

\* ------------------------------------------- registerDeviceKeys, step by step
\* the call slots of POST /api/keys/register
RegSlots == {"g1", "g2"}

IdleReg == [pc |-> "idle", userId |-> None, deviceId |-> None, publicKey |-> None,
            signedPreKey |-> None, identityPublicKey |-> None, preKeys |-> <<>>,
            found |-> FALSE]

\* registerDeviceKeys up to `await Device.findOne({userId, deviceId})`: the only
\* key the method validates is publicKey ('Invalid public key format' is thrown
\* before anything is read or written); signedPreKey is signedPreKey.publicKey
RdFindKeys(p, userId, deviceId, publicKey, signedPreKey, identityPublicKey, preKeys) ==
    /\ rd[p].pc = "idle"
    /\ isValidBase64(publicKey)
    /\ rd' = [rd EXCEPT ![p] =
                [pc |-> "saveDevice", userId |-> userId, deviceId |-> deviceId,
                 publicKey |-> publicKey, signedPreKey |-> signedPreKey,
                 identityPublicKey |-> identityPublicKey,
                 preKeys |-> preKeys, found |-> devices[<<userId, deviceId>>].exists]]
    /\ UNCHANGED <<now, sideVars, devices, identityKeys, prekeys, nextPreKeyId, regCount, gk,
                   fetchLog, rt, dc, msgVars, wsVars>>

\* the calls of the runs whose signed prekey has the encoding of the device key
RdFind(p, userId, deviceId, publicKey, identityPublicKey, preKeys) ==
    RdFindKeys(p, userId, deviceId, publicKey, publicKey, identityPublicKey, preKeys)

\* `await device.save()`: an update of the modified paths of the document that was
\* found, or the insert of a new one, which the unique indexes reject (E11000) when
\* the device was inserted in the meantime; the error ends the call
RdSaveDevice(p) ==
    /\ rd[p].pc = "saveDevice"
    /\ LET c == rd[p]
           dk == <<c.userId, c.deviceId>>
           next == IF c.identityPublicKey # None THEN "findUser" ELSE "preKeys"
       IN  IF c.found
           THEN /\ devices' = [devices EXCEPT ![dk] =
                                 [@ EXCEPT !.publicKey = c.publicKey,
                                           !.signedPreKey = c.signedPreKey,
                                           !.isActive = TRUE]]
                /\ rd' = [rd EXCEPT ![p].pc = next]
           ELSE IF devices[dk].exists \/ ~CanInsertDevice(c.userId, c.deviceId)
           THEN /\ devices' = devices
                /\ rd' = [rd EXCEPT ![p] = IdleReg]
           ELSE /\ devices' = [devices EXCEPT ![dk] =
                                 [exists |-> TRUE, publicKey |-> c.publicKey,
                                  signedPreKey |-> c.signedPreKey, isActive |-> TRUE,
                                  isRevoked |-> FALSE]]
                /\ rd' = [rd EXCEPT ![p].pc = next]
    /\ UNCHANGED <<now, sideVars, identityKeys, prekeys, nextPreKeyId, regCount, gk, fetchLog,
                   rt, dc, msgVars, wsVars>>

\* `const user = await User.findById(userId)` and the test !user.identityPublicKey
RdFindUser(p) ==
    /\ rd[p].pc = "findUser"
    /\ rd' = [rd EXCEPT ![p].pc = IF identityKeys[rd[p].userId] = None
                                  THEN "saveUser" ELSE "preKeys"]
    /\ UNCHANGED <<now, sideVars, devices, identityKeys, prekeys, nextPreKeyId, regCount, gk,
                   fetchLog, rt, dc, msgVars, wsVars>>

\* user.identityPublicKey = identityPublicKey; `await user.save()`: an update by _id
\* of the modified path
RdSaveUser(p) ==
    /\ rd[p].pc = "saveUser"
    /\ identityKeys' = [identityKeys EXCEPT ![rd[p].userId] = rd[p].identityPublicKey]
    /\ rd' = [rd EXCEPT ![p].pc = "preKeys"]
    /\ UNCHANGED <<now, sideVars, devices, prekeys, nextPreKeyId, regCount, gk, fetchLog,
                   rt, dc, msgVars, wsVars>>

\* `await this.registerPreKeys(userId, deviceId, preKeys)` when prekeys were
\* supplied, and the return of the call
RdPreKeys(p) ==
    /\ rd[p].pc = "preKeys"
    /\ IF Len(rd[p].preKeys) > 0
       THEN \E w \in Winners(rd[p].userId, rd[p].deviceId, rd[p].preKeys) :
              registerPreKeys(rd[p].userId, rd[p].deviceId, rd[p].preKeys, w)
       ELSE UNCHANGED <<prekeys, nextPreKeyId, regCount>>
    /\ rd' = [rd EXCEPT ![p] = IdleReg]
    /\ UNCHANGED <<now, sideVars, devices, identityKeys, gk, fetchLog, rt, dc, msgVars, wsVars>>

\* ----------------------------------------------------- rotateDeviceKeys
IdleRotate == [pc |-> "idle", userId |-> None, deviceId |-> None, publicKey |-> None,
               signedPreKey |-> None, preKeys |-> <<>>]

\* rotateDeviceKeys up to `await Device.findOne({userId, deviceId, isRevoked: false})`;
\* without such a device the call throws 'Device not found or revoked'
RtFind(userId, deviceId, publicKey, signedPreKey, preKeys) ==
    /\ rt.pc = "idle"
    /\ devices[<<userId, deviceId>>].exists /\ ~devices[<<userId, deviceId>>].isRevoked
    /\ rt' = [pc |-> "save", userId |-> userId, deviceId |-> deviceId,
              publicKey |-> publicKey, signedPreKey |-> signedPreKey, preKeys |-> preKeys]
    /\ UNCHANGED <<now, sideVars, devices, identityKeys, prekeys, nextPreKeyId, regCount, gk,
                   fetchLog, rd, dc, msgVars, wsVars>>

\* `await device.save()`: the keys that were supplied replace the stored ones; the
\* call returns here when no prekeys were supplied
RtSave ==
    /\ rt.pc = "save"
    /\ devices' = [devices EXCEPT ![<<rt.userId, rt.deviceId>>] =
                     [@ EXCEPT !.publicKey = IF rt.publicKey # None
                                             THEN rt.publicKey ELSE @,
                               !.signedPreKey = IF rt.signedPreKey # None
                                                THEN rt.signedPreKey ELSE @]]
    /\ rt' = IF Len(rt.preKeys) > 0 THEN [rt EXCEPT !.pc = "delete"] ELSE IdleRotate
    /\ UNCHANGED <<now, sideVars, identityKeys, prekeys, nextPreKeyId, regCount, gk, fetchLog,
                   rd, dc, msgVars, wsVars>>

\* `await PreKey.deleteMany({userId, deviceId, isUsed: false})`
RtDelete ==
    /\ rt.pc = "delete"
    /\ prekeys' = {k \in prekeys :
                     ~(k.userId = rt.userId /\ k.deviceId = rt.deviceId /\ ~k.isUsed)}
    /\ rt' = [rt EXCEPT !.pc = "register"]
    /\ UNCHANGED <<now, sideVars, devices, identityKeys, nextPreKeyId, regCount, gk, fetchLog,
                   rd, dc, msgVars, wsVars>>

\* `await this.registerPreKeys(userId, deviceId, preKeys)` and the return of the call
RtRegister ==
    /\ rt.pc = "register"
    /\ \E w \in Winners(rt.userId, rt.deviceId, rt.preKeys) :
         registerPreKeys(rt.userId, rt.deviceId, rt.preKeys, w)
    /\ rt' = IdleRotate
    /\ UNCHANGED <<now, sideVars, devices, identityKeys, gk, fetchLog, rd, dc, msgVars, wsVars>>

\* ------------------------------------------------ login, logout, revokeDevice
\* the AuthService operations on a device; one call of each kind at a time
DcOps == {"login", "logout", "revoke"}

IdleDc == [pc |-> "idle", userId |-> None, deviceId |-> None]

\* authenticateToken, the middleware of the protected routes: the device of the
\* token exists and is not revoked
authenticateToken(userId, deviceId) ==
    devices[<<userId, deviceId>>].exists /\ ~devices[<<userId, deviceId>>].isRevoked

\* login with valid credentials up to `await Device.findOne({userId, deviceId})`:
\* without a device the call returns requiresKeyRegistration, with a revoked one it
\* throws 'Device has been revoked'
LoginFind(userId, deviceId) ==
    /\ dc["login"].pc = "idle"
    /\ devices[<<userId, deviceId>>].exists
    /\ ~devices[<<userId, deviceId>>].isRevoked
    /\ dc' = [dc EXCEPT !["login"] = [pc |-> "save", userId |-> userId,
                                      deviceId |-> deviceId]]
    /\ UNCHANGED <<now, sideVars, devices, identityKeys, prekeys, nextPreKeyId, regCount, gk,
                   fetchLog, rd, rt, msgVars, wsVars>>

\* login: device.isActive = true; `await device.save()`, and the second save with
\* the refreshTokenHash
LoginSave ==
    /\ dc["login"].pc = "save"
    /\ devices' = [devices EXCEPT ![<<dc["login"].userId, dc["login"].deviceId>>].isActive = TRUE]
    /\ dc' = [dc EXCEPT !["login"].pc = "userSave"]
    /\ UNCHANGED <<now, sideVars, identityKeys, prekeys, nextPreKeyId, regCount, gk,
                   fetchLog, rd, rt, msgVars, wsVars>>

\* login: user.isOnline = true; user.lastSeen = new Date(); `await user.save()`
LoginUserSave ==
    /\ dc["login"].pc = "userSave"
    /\ users' = [users EXCEPT ![dc["login"].userId].isOnline = TRUE,
                              ![dc["login"].userId].lastSeen = now]
    /\ dc' = [dc EXCEPT !["login"] = IdleDc]
    /\ UNCHANGED <<now, sideVars, devices, identityKeys, prekeys, nextPreKeyId, regCount, gk,
                   fetchLog, rd, rt, msgVars, socks, clients, presence, published, gwVars>>

\* POST /api/auth/logout up to `await Device.findOne({userId, deviceId})`
LogoutFind(userId, deviceId) ==
    /\ dc["logout"].pc = "idle"
    /\ authenticateToken(userId, deviceId)
    /\ dc' = [dc EXCEPT !["logout"] = [pc |-> "save", userId |-> userId,
                                       deviceId |-> deviceId]]
    /\ UNCHANGED <<now, sideVars, devices, identityKeys, prekeys, nextPreKeyId, regCount, gk,
                   fetchLog, rd, rt, msgVars, wsVars>>

\* logout: device.isActive = false; `await device.save()`
LogoutSave ==
    /\ dc["logout"].pc = "save"
    /\ devices' = [devices EXCEPT ![<<dc["logout"].userId, dc["logout"].deviceId>>].isActive = FALSE]
    /\ dc' = [dc EXCEPT !["logout"].pc = "count"]
    /\ UNCHANGED <<now, sideVars, identityKeys, prekeys, nextPreKeyId, regCount, gk,
                   fetchLog, rd, rt, msgVars, wsVars>>

\* logout: `await Device.countDocuments({userId, isActive: true, isRevoked: false})`
LogoutCount ==
    /\ dc["logout"].pc = "count"
    /\ LET activeDevices == {d \in DeviceIds :
                               LET dev == devices[<<dc["logout"].userId, d>>]
                               IN  dev.exists /\ dev.isActive /\ ~dev.isRevoked}
       IN  dc' = [dc EXCEPT !["logout"] =
                    IF activeDevices = {} THEN [@ EXCEPT !.pc = "userUpdate"] ELSE IdleDc]
    /\ UNCHANGED <<now, sideVars, devices, identityKeys, prekeys, nextPreKeyId, regCount, gk,
                   fetchLog, rd, rt, msgVars, wsVars>>

\* logout, activeDevices === 0: User.findByIdAndUpdate(userId, {isOnline: false, ...})
LogoutUserUpdate ==
    /\ dc["logout"].pc = "userUpdate"
    /\ users' = [users EXCEPT ![dc["logout"].userId].isOnline = FALSE,
                              ![dc["logout"].userId].lastSeen = now]
    /\ dc' = [dc EXCEPT !["logout"] = IdleDc]
    /\ UNCHANGED <<now, sideVars, devices, identityKeys, prekeys, nextPreKeyId, regCount, gk,
                   fetchLog, rd, rt, msgVars, socks, clients, presence, published, gwVars>>

\* DELETE /api/auth/devices/:deviceId, sent from the device by, up to
\* `await Device.findOne({userId, deviceId})`; without the device the call throws
RevokeFind(userId, by, deviceId) ==
    /\ dc["revoke"].pc = "idle"
    /\ authenticateToken(userId, by)
    /\ devices[<<userId, deviceId>>].exists
    /\ dc' = [dc EXCEPT !["revoke"] = [pc |-> "save", userId |-> userId,
                                       deviceId |-> deviceId]]
    /\ UNCHANGED <<now, sideVars, devices, identityKeys, prekeys, nextPreKeyId, regCount, gk,
                   fetchLog, rd, rt, msgVars, wsVars>>

\* deviceSchema.methods.revoke: isRevoked = true, isActive = false, save()
RevokeSave ==
    /\ dc["revoke"].pc = "save"
    /\ devices' = [devices EXCEPT ![<<dc["revoke"].userId, dc["revoke"].deviceId>>] =
                     [@ EXCEPT !.isRevoked = TRUE, !.isActive = FALSE]]
    /\ dc' = [dc EXCEPT !["revoke"] = IdleDc]
    /\ UNCHANGED <<now, sideVars, identityKeys, prekeys, nextPreKeyId, regCount, gk,
                   fetchLog, rd, rt, msgVars, wsVars>>

\* --------------------------------------------------------- getUserKeys calls
IdleCall == [pc |-> "idle", target |-> None,
             ph |-> [d \in DeviceIds |-> "off"], got |-> [d \in DeviceIds |-> 0]]

\* the bundles returned so far and the calls under way
Returned == LET n[S \in SUBSET DevKeys] ==
                  IF S = {} THEN 0
                  ELSE LET dk == CHOOSE x \in S : TRUE IN Len(fetchLog[dk]) + n[S \ {dk}]
            IN  n[DevKeys]

InFlight == Cardinality({p \in KeyCallers : gk[p].pc # "idle"})

\* a faulty variant: the filter forgets isRevoked: false
BundleFilter_IgnoresRevoked(device) ==
    /\ device.exists
    /\ device.isActive

\* the filter of Device.find in getUserKeys: {userId, isRevoked: false, isActive: true}
BundleFilter(device) ==
    /\ device.exists
    /\ ~device.isRevoked
    /\ device.isActive

\* getUserKeys up to Device.find: the devices of the bundle are those active and
\* not revoked
GkStart(p, target) ==
    /\ gk[p].pc = "idle"
    /\ Returned + InFlight < MaxCalls
    /\ gk' = [gk EXCEPT ![p] =
                [pc |-> "run", target |-> target,
                 ph |-> [d \in DeviceIds |->
                           IF BundleFilter(devices[<<target, d>>])
                           THEN "find" ELSE "off"],
                 got |-> [d \in DeviceIds |-> 0]]]
    /\ UNCHANGED <<now, sideVars, devices, identityKeys, prekeys, nextPreKeyId, regCount, fetchLog, msgVars, wsVars, callVars>>

\* await PreKey.getAvailablePreKey(targetUserId, device.deviceId)
GkFind(p, d) ==
    /\ gk[p].pc \in {"run", "failed"}
    /\ gk[p].ph[d] = "find"
    /\ LET found == getAvailablePreKey(gk[p].target, d)
       IN  IF found = {}
           THEN gk' = [gk EXCEPT ![p].ph[d] = "ok"]
           ELSE \E k \in found :
                  gk' = [gk EXCEPT ![p].ph[d] = "mark", ![p].got[d] = k.id]
    /\ UNCHANGED <<now, sideVars, devices, identityKeys, prekeys, nextPreKeyId, regCount, fetchLog, msgVars, wsVars, callVars>>

\* await preKey.markAsUsed(requestingUserId): save() of a document that was deleted
\* in the meantime rejects, and with it the whole Promise.all
GkMark(p, d) ==
    /\ gk[p].pc \in {"run", "failed"}
    /\ gk[p].ph[d] = "mark"
    /\ IF \E k \in prekeys : k.id = gk[p].got[d]
       THEN /\ prekeys' = markAsUsed(gk[p].got[d], p)
            /\ gk' = [gk EXCEPT ![p].ph[d] = "ok"]
       ELSE /\ prekeys' = prekeys
            /\ gk' = [gk EXCEPT ![p].ph[d] = "ok", ![p].pc = "failed"]
    /\ UNCHANGED <<now, sideVars, devices, identityKeys, nextPreKeyId, regCount, fetchLog, msgVars, wsVars, callVars>>

\* the bundle is returned once every device's chain has settled
GkReturn(p) ==
    /\ gk[p].pc = "run"
    /\ \A d \in DeviceIds : gk[p].ph[d] \in {"off", "ok"}
    /\ fetchLog' = [dk \in DevKeys |->
                      IF dk[1] = gk[p].target /\ gk[p].ph[dk[2]] = "ok"
                      THEN Append(fetchLog[dk], gk[p].got[dk[2]])
                      ELSE fetchLog[dk]]
    /\ gk' = [gk EXCEPT ![p] = IdleCall]
    /\ UNCHANGED <<now, sideVars, devices, identityKeys, prekeys, nextPreKeyId, regCount, msgVars, wsVars, callVars>>

\* a rejected call ends once its chains have settled
GkFail(p) ==
    /\ gk[p].pc = "failed"
    /\ \A d \in DeviceIds : gk[p].ph[d] \in {"off", "ok"}
    /\ gk' = [gk EXCEPT ![p] = IdleCall]
    /\ UNCHANGED <<now, sideVars, devices, identityKeys, prekeys, nextPreKeyId, regCount, fetchLog, msgVars, wsVars, callVars>>

Tick ==
    /\ now < MaxTime
    /\ now' = now + 1
    /\ UNCHANGED <<sideVars, keyVars, msgVars, wsVars>>

\* ------------------------------------------------------------- Room model
RoomIds == {"r1"}

\* a Date field that is not set
NoDate == -1

NoRoom == [exists |-> FALSE, participants |-> <<>>, lastActivity |-> NoDate]

UserIdsOf(participants) == {participants[i].userId : i \in DOMAIN participants}

\* roomSchema.methods.isParticipant
isParticipant(room, userId) == userId \in UserIdsOf(room.participants)

\* roomSchema.methods.isAdmin: the role of the first entry of the user
isAdmin(room, userId) ==
    LET idx == {i \in DOMAIN room.participants : room.participants[i].userId = userId}
    IN  idx # {} /\ room.participants[Min(idx)].role = "admin"

\* POST /api/rooms: the creator as admin, then one member entry per element of the
\* request's participants array, in order
CreateRoom(r, creator, participants) ==
    /\ ~rooms[r].exists
    /\ Len(participants) >= 1
    /\ rooms' = [rooms EXCEPT ![r] =
                   [exists       |-> TRUE,
                    participants |-> <<[userId |-> creator, role |-> "admin"]>> \o
                                     [i \in DOMAIN participants |->
                                        [userId |-> participants[i], role |-> "member"]],
                    lastActivity |-> now]]
    /\ UNCHANGED <<now, sideVars, keyVars, wsVars, messages, sm, smRes, chat, ak, offRes, delRes>>

\* POST /api/rooms/:roomId/participants and roomSchema.methods.addParticipant
AddParticipant(r, requester, userId) ==
    /\ rooms[r].exists
    /\ isAdmin(rooms[r], requester)
    /\ ~isParticipant(rooms[r], userId)
    /\ Len(rooms[r].participants) < MaxParticipants
    /\ rooms' = [rooms EXCEPT ![r].participants =
                                 Append(@, [userId |-> userId, role |-> "member"]),
                              ![r].lastActivity = now]
    /\ UNCHANGED <<now, sideVars, keyVars, wsVars, messages, sm, smRes, chat, ak, offRes, delRes>>

\* DELETE /api/rooms/:roomId/participants/:userId and
\* roomSchema.methods.removeParticipant
RemoveParticipant(r, requester, userId) ==
    /\ rooms[r].exists
    /\ isAdmin(rooms[r], requester) \/ requester = userId
    /\ rooms' = [rooms EXCEPT ![r].participants =
                                 SelectSeq(@, LAMBDA p : p.userId # userId),
                              ![r].lastActivity = now]
    /\ UNCHANGED <<now, sideVars, keyVars, wsVars, messages, sm, smRes, chat, ak, offRes, delRes>>

\* ---------------------------------------------------------- Message model
MessageIdSeq == <<"m1", "m2", "m3">>
MessageIds == Range(MessageIdSeq)
Contents == {"c1", "c2"}
\* the sendMessage call slots and the encryptedContent each sends
SendSlots == {"s1", "s2"}
ContentOf(p) == IF p = "s1" THEN "c1" ELSE "c2"
\* an id that is no user's
UnknownUser == "Z"

\* a request body of sendMessage (a field that is missing is None)
Payload(messageId, messageType, recipientId, roomId, encryptedContent) ==
    [messageId |-> messageId, messageType |-> messageType, recipientId |-> recipientId,
     roomId |-> roomId, encryptedContent |-> encryptedContent]

NoPayload == Payload(None, None, None, None, None)

NoMessage ==
    [id |-> 0, messageId |-> None, senderId |-> None, senderDeviceId |-> None,
     messageType |-> None, recipientId |-> None, roomId |-> None,
     encryptedContent |-> None, deliveryStatus |-> None, deliveredAt |-> NoDate,
     readAt |-> NoDate, recipientStatuses |-> <<>>, isDeleted |-> FALSE,
     deletedAt |-> NoDate, createdAt |-> NoDate, addressedTo |-> {}]

IdleSend == [pc |-> "idle", via |-> None, senderId |-> None, senderDeviceId |-> None,
             data |-> NoPayload, recipientStatuses |-> <<>>, addressedTo |-> {}]

NoResult == [slot |-> None, status |-> "none", message |-> NoMessage, error |-> None]

Returns(p, message) == [slot |-> p, status |-> "ok", message |-> message, error |-> None]

Throws(p, error) == [slot |-> p, status |-> "error", message |-> NoMessage, error |-> error]

\* Message.findOne({messageId}): the documents with the id (the unique index keeps
\* them to one at most)
findOne(messageId) == {m \in messages : m.messageId = messageId}

IdleChat == [pc |-> "idle", message |-> NoMessage]

\* a faulty variant: handleChatMessage goes on to publish and acknowledge whatever
\* sendMessage did
EndSend_AcksErrors(via, result) ==
    /\ smRes' = result
    /\ chat' = IF via = None THEN chat
               ELSE [chat EXCEPT ![via] = [pc |-> "publish", message |-> result.message]]

\* a sendMessage call ends. A call made by handleChatMessage for the socket via
\* resumes that handler: with the message it goes on to `await pub.publish`, and an
\* error is caught by handleMessage, which answers with an error frame. A call made by
\* MessageController.sendMessage (via is None) answers the request
EndSend(via, result) ==
    /\ smRes' = result
    /\ chat' = IF via = None THEN chat
               ELSE [chat EXCEPT ![via] = IF result.status = "ok"
                                          THEN [pc |-> "publish", message |-> result.message]
                                          ELSE IdleChat]

\* a sendMessage call goes on to its next await
GoOnSend(via) ==
    /\ smRes' = smRes
    /\ chat' = IF via = None THEN chat ELSE [chat EXCEPT ![via].pc = "send"]

\* MessageService.sendMessage up to `await Message.findOne({messageId})`, called for
\* the socket via or for a request (via is None)
StartSend(p, via, senderId, senderDeviceId, data) ==
    /\ sm[p].pc = "idle"
    /\ IF data.messageType = "direct" /\ data.recipientId = None
       THEN /\ EndSend(via, Throws(p, "Recipient ID required for direct messages"))
            /\ sm' = sm
       ELSE IF data.messageType = "group" /\ data.roomId = None
       THEN /\ EndSend(via, Throws(p, "Room ID required for group messages"))
            /\ sm' = sm
       ELSE IF findOne(data.messageId) # {}
       THEN /\ \E existingMessage \in findOne(data.messageId) :
                 EndSend(via, Returns(p, existingMessage))
            /\ sm' = sm
       ELSE /\ sm' = [sm EXCEPT ![p] = [IdleSend EXCEPT !.pc = "lookup",
                                                        !.via = via,
                                                        !.senderId = senderId,
                                                        !.senderDeviceId = senderDeviceId,
                                                        !.data = data]]
            /\ GoOnSend(via)
    /\ UNCHANGED <<now, sideVars, keyVars, wsVars, rooms, messages, ak, offRes, delRes>>

\* POST /api/messages/send: MessageController.sendMessage calls sendMessage with
\* req.userId, req.deviceId and the body
SmFind(p, senderId, senderDeviceId, data) ==
    StartSend(p, None, senderId, senderDeviceId, data)

\* a frame of type 'message' arrives on a socket whose handlers are registered:
\* handleChatMessage calls sendMessage with the user and device of the socket
WsMessage(w, p, data) ==
    /\ socks[w].pc = "open"
    /\ socks[w].alive
    /\ chat[w].pc = "idle"
    /\ StartSend(p, w, socks[w].userId, socks[w].deviceId, data)

\* the status entries of a group message: one per element of room.participants whose
\* userId is not the sender's
InitialStatuses(participants, senderId) ==
    LET others == SelectSeq(participants, LAMBDA q : q.userId # senderId)
    IN  [i \in DOMAIN others |->
           [recipientId |-> others[i].userId, deviceId |-> None, status |-> "sent",
            deliveredAt |-> NoDate, readAt |-> NoDate]]

\* sendMessage from the recipient / room lookup to `await room.save()`
SmLookup(p) ==
    /\ sm[p].pc = "lookup"
    /\ LET c == sm[p]
       IN  IF c.data.messageType = "direct"
           THEN /\ rooms' = rooms
                /\ IF c.data.recipientId \notin Users
                   THEN /\ EndSend(c.via, Throws(p, "Recipient not found"))
                        /\ sm' = [sm EXCEPT ![p] = IdleSend]
                   ELSE /\ GoOnSend(c.via)
                        /\ sm' = [sm EXCEPT ![p].pc = "create",
                                            ![p].addressedTo = {c.data.recipientId}]
           ELSE IF ~rooms[c.data.roomId].exists
           THEN /\ EndSend(c.via, Throws(p, "Room not found"))
                /\ sm' = [sm EXCEPT ![p] = IdleSend]
                /\ rooms' = rooms
           ELSE IF ~isParticipant(rooms[c.data.roomId], c.senderId)
           THEN /\ EndSend(c.via, Throws(p, "Not a member of this room"))
                /\ sm' = [sm EXCEPT ![p] = IdleSend]
                /\ rooms' = rooms
           ELSE /\ GoOnSend(c.via)
                /\ sm' = [sm EXCEPT
                            ![p].pc = "create",
                            ![p].recipientStatuses =
                               InitialStatuses(rooms[c.data.roomId].participants, c.senderId),
                            ![p].addressedTo =
                               UserIdsOf(rooms[c.data.roomId].participants) \ {c.senderId}]
                /\ rooms' = [rooms EXCEPT ![c.data.roomId].lastActivity = now]
    /\ UNCHANGED <<now, sideVars, keyVars, wsVars, messages, ak, offRes, delRes>>

\* the document Message.create stores for a call; addressedTo is a history field:
\* the users the message was addressed to when it was sent
NewMessage(c) ==
    [id                |-> Cardinality(messages) + 1,
     messageId         |-> c.data.messageId,
     senderId          |-> c.senderId,
     senderDeviceId    |-> c.senderDeviceId,
     messageType       |-> c.data.messageType,
     recipientId       |-> IF c.data.messageType = "direct" THEN c.data.recipientId ELSE None,
     roomId            |-> IF c.data.messageType = "group" THEN c.data.roomId ELSE None,
     encryptedContent  |-> c.data.encryptedContent,
     deliveryStatus    |-> "sent",
     deliveredAt       |-> NoDate,
     readAt            |-> NoDate,
     recipientStatuses |-> c.recipientStatuses,
     isDeleted         |-> FALSE,
     deletedAt         |-> NoDate,
     createdAt         |-> now,
     addressedTo       |-> c.addressedTo]

\* `await Message.create(messageDoc)`: the unique index on messageId rejects a second
\* document with the id (E11000), and sendMessage lets the error through
SmCreate(p) ==
    /\ sm[p].pc = "create"
    /\ IF findOne(sm[p].data.messageId) # {}
       THEN /\ EndSend(sm[p].via, Throws(p, "E11000 duplicate key"))
            /\ messages' = messages
       ELSE /\ EndSend(sm[p].via, Returns(p, NewMessage(sm[p])))
            /\ messages' = messages \cup {NewMessage(sm[p])}
    /\ sm' = [sm EXCEPT ![p] = IdleSend]
    /\ UNCHANGED <<now, sideVars, keyVars, wsVars, rooms, ak, offRes, delRes>>

\* ------------------------------------------------- delivery acknowledgements
\* the users that acknowledge; each has one call slot, and the recipientId of a call
\* is its caller (req.userId, ws.userId)
AckCallers == {"B", "C"}
Statuses == {"delivered", "read"}

IdleAck == [pc |-> "idle", status |-> None, deviceId |-> None, loaded |-> {}]

\* markDelivered / markRead (one id) and bulkUpdateStatus (several) up to
\* `await Message.findOne / Message.find`: the documents are loaded into memory
AkLoad(p, messageIds, status, deviceId) ==
    /\ ak[p].pc = "idle"
    /\ \E m \in messages : m.messageId \in messageIds
    /\ ak' = [ak EXCEPT ![p] = [pc |-> "save", status |-> status, deviceId |-> deviceId,
                                loaded |-> {m \in messages : m.messageId \in messageIds}]]
    /\ UNCHANGED <<now, sideVars, keyVars, wsVars, rooms, messages, sm, smRes, chat, offRes, delRes>>

\* recipientStatuses.find(rs => rs.recipientId === recipientId && rs.deviceId === deviceId):
\* the index of the first such entry, 0 when there is none
findStatus(recipientStatuses, recipientId, deviceId) ==
    LET idx == {i \in DOMAIN recipientStatuses :
                  /\ recipientStatuses[i].recipientId = recipientId
                  /\ recipientStatuses[i].deviceId = deviceId}
    IN  IF idx = {} THEN 0 ELSE Min(idx)

\* the deliveryStatus a save() leaves in the store: the path is written when the
\* method changed it in the loaded document
SetStatus(stored, loaded, status) ==
    IF loaded.deliveryStatus # status THEN status ELSE stored.deliveryStatus

\* messageSchema.methods.markDelivered / markRead on a loaded document followed by
\* save(): the stored document after the update by _id of the modified paths
markStatus(stored, loaded, recipientId, deviceId, status) ==
    IF loaded.messageType = "direct"
    THEN IF status = "delivered"
         THEN [stored EXCEPT !.deliveryStatus = SetStatus(stored, loaded, status),
                             !.deliveredAt = now]
         ELSE [stored EXCEPT !.deliveryStatus = SetStatus(stored, loaded, status),
                             !.readAt = now]
    ELSE LET i == findStatus(loaded.recipientStatuses, recipientId, deviceId)
         IN  IF i = 0 THEN stored
             ELSE IF status = "delivered"
             THEN [stored EXCEPT !.recipientStatuses[i].status = status,
                                 !.recipientStatuses[i].deliveredAt = now]
             ELSE [stored EXCEPT !.recipientStatuses[i].status = status,
                                 !.recipientStatuses[i].readAt = now]

\* one `message.markDelivered / markRead(recipientId, deviceId)` of the call settles;
\* those of a bulk call settle in any order (Promise.all)
AkSave(p, loaded) ==
    /\ ak[p].pc = "save"
    /\ loaded \in ak[p].loaded
    /\ messages' = {IF m.id = loaded.id
                    THEN markStatus(m, loaded, p, ak[p].deviceId, ak[p].status)
                    ELSE m : m \in messages}
    /\ ak' = [ak EXCEPT ![p] = IF ak[p].loaded = {loaded} THEN IdleAck
                               ELSE [@ EXCEPT !.loaded = @ \ {loaded}]]
    /\ UNCHANGED <<now, sideVars, keyVars, wsVars, rooms, sm, smRes, chat, offRes, delRes>>

NoDelete == [messageId |-> None, userId |-> None, status |-> "none", error |-> None]

\* a faulty variant: the check of the sender is forgotten
MayDelete_Anyone(message, userId) == TRUE

\* deleteMessage: message.senderId.toString() === userId.toString()
MayDelete(message, userId) == message.senderId = userId

\* messageSchema.methods.softDelete followed by save(): the stored document after
\* the update of isDeleted and deletedAt
softDelete(stored) == [stored EXCEPT !.isDeleted = TRUE, !.deletedAt = now]

\* MessageService.deleteMessage: without the message it throws 'Message not found',
\* for a user that is not the sender 'Not authorized to delete this message';
\* otherwise message.softDelete() (the save writes only isDeleted and deletedAt, which
\* nothing else writes, so the call is followed as one step)
DeleteMessage(messageId, userId) ==
    /\ IF findOne(messageId) = {}
       THEN /\ delRes' = [messageId |-> messageId, userId |-> userId, status |-> "error",
                          error |-> "Message not found"]
            /\ messages' = messages
       ELSE \E message \in findOne(messageId) :
              IF ~MayDelete(message, userId)
              THEN /\ delRes' = [messageId |-> messageId, userId |-> userId,
                                 status |-> "error",
                                 error |-> "Not authorized to delete this message"]
                   /\ messages' = messages
              ELSE /\ delRes' = [messageId |-> messageId, userId |-> userId,
                                 status |-> "ok", error |-> None]
                   /\ messages' = {IF m.id = message.id THEN softDelete(m) ELSE m :
                                     m \in messages}
    /\ UNCHANGED <<now, sideVars, keyVars, wsVars, rooms, sm, smRes, chat, ak, offRes>>

\* ------------------------------------------------------ getOfflineMessages
\* a faulty variant: the query forgets messageType: 'direct' / 'group' and recipientStatuses,
\* and matches every envelope that is not the caller's own
OfflineQuery_NotAddressed(m, userId, lastSyncTime) ==
    /\ ~m.isDeleted
    /\ m.createdAt > lastSyncTime
    /\ m.senderId # userId

\* the query of getOfflineMessages
OfflineQuery(m, userId, lastSyncTime) ==
    /\ ~m.isDeleted
    /\ m.createdAt > lastSyncTime
    /\ \/ m.recipientId = userId /\ m.messageType = "direct"
       \/ /\ m.messageType = "group"
          /\ \E i \in DOMAIN m.recipientStatuses : m.recipientStatuses[i].recipientId = userId

\* the orders sort({createdAt: 1}) may give a set of documents
SortedByCreatedAt(S) ==
    {s \in [1..Cardinality(S) -> S] :
        /\ \A i, j \in DOMAIN s : i # j => s[i] # s[j]
        /\ \A i, j \in DOMAIN s : i < j => s[i].createdAt <= s[j].createdAt}

\* limit(n) of a sorted result
Limit(s, n) == SubSeq(s, 1, IF Len(s) < n THEN Len(s) ELSE n)

\* MessageService.getOfflineMessages: the results the store may return
getOfflineMessages(userId, lastSyncTime) ==
    {Limit(s, OfflineLimit) :
        s \in SortedByCreatedAt({m \in messages : OfflineQuery(m, userId, lastSyncTime)})}

SyncTimes == {NoDate} \cup (0..(MaxTime - 1))

NoSync == [userId |-> None, lastSyncTime |-> NoDate, messages |-> <<>>]

\* GET /api/messages/offline?lastSyncTime= up to `await
\* messageService.getOfflineMessages`
GetOfflineMessages(userId, lastSyncTime) ==
    /\ \E result \in getOfflineMessages(userId, lastSyncTime) :
         offRes' = [userId |-> userId, lastSyncTime |-> lastSyncTime, messages |-> result]
    /\ UNCHANGED <<now, sideVars, keyVars, wsVars, rooms, messages, sm, smRes, chat, ak, delRes>>

\* res.status(200).json({data: messages}): the response is sent and the request ends
SyncDone ==
    /\ offRes # NoSync
    /\ offRes' = NoSync
    /\ UNCHANGED <<now, sideVars, keyVars, wsVars, rooms, messages, sm, smRes, chat, ak, delRes>>

\* ------------------------------------------------------ presence / gateway
\* the sockets of the runs, in the order a server process accepts them
Socks == {"w1", "w2"}
WsUsers == {"A"}
\* the server processes behind the load balancer; each has its own registry
Procs == {"p1", "p2"}
\* what the token of an upgrade request may be
Tokens == {"valid", "invalid", "missing"}
\* the users whose account was deactivated (User.isActive: false)
InactiveUsers == {"C"}

\* alive is readyState OPEN; closing is set while the server has sent its close frame
\* and the peer has not answered; code is the close code the server sent (0: none);
\* did records what was done for the socket: an entry in the registry, a presence
\* marker written, a presence event published; isAlive is ws.isAlive ("true", "false", None
\* while it is undefined); silent is set once the peer has stopped responding, and missed
\* counts the firings of the heartbeat timer since then
FreeSock == [pc |-> "free", proc |-> None, token |-> None, userId |-> None,
             deviceId |-> None, alive |-> FALSE, closing |-> FALSE, code |-> 0,
             keys |-> 0, did |-> {}, isAlive |-> None, silent |-> FALSE, missed |-> 0]

NoUser == [isActive |-> TRUE, isOnline |-> FALSE, lastSeen |-> NoDate]

NoClients == [dk \in DevKeys |-> None]

\* redis.keys(`presence:${userId}:*`): the markers of the user that have not expired
PresenceKeys(userId) ==
    {d \in DeviceIds : presence[<<userId, d>>] > now}

\* pub.publish('presence', {userId, deviceId, status})
Publish(userId, deviceId, status) ==
    published' = Append(published, [userId |-> userId, deviceId |-> deviceId,
                                    status |-> status])

\* wss.on('connection') of the process proc: the upgrade request of a client arrives;
\* its token is missing, invalid, or valid and signed for (userId, deviceId)
WsConnect(w, proc, token, userId, deviceId) ==
    /\ socks[w].pc = "free"
    /\ socks' = [socks EXCEPT ![w] = [FreeSock EXCEPT !.pc = "auth", !.proc = proc,
                                                      !.token = token, !.userId = userId,
                                                      !.deviceId = deviceId, !.alive = TRUE]]
    /\ UNCHANGED <<now, sideVars, keyVars, msgVars, gwVars, clients, presence, users, published>>

\* a faulty variant: the check of user.isActive is forgotten
authenticateWebSocket_AnyUser(token, userId, deviceId) ==
    /\ token = "valid"
    /\ userId \in Users
    /\ devices[<<userId, deviceId>>].exists
    /\ ~devices[<<userId, deviceId>>].isRevoked

\* authenticateWebSocket: the token is present and verifies, the user exists and is
\* active, and the device of the token exists and is not revoked (the user is read
\* before the device; nothing writes User.isActive, so the outcome is that of the
\* device query)
authenticateWebSocket(token, userId, deviceId) ==
    /\ token = "valid"
    /\ userId \in Users
    /\ users[userId].isActive
    /\ devices[<<userId, deviceId>>].exists
    /\ ~devices[<<userId, deviceId>>].isRevoked

\* `await authenticateWebSocket(req)` settles: on failure the catch of the connection
\* handler closes the socket with code 4001, otherwise the socket enters the
\* registry of its process under `${userId}:${deviceId}`
WsAuthenticate(w) ==
    /\ socks[w].pc = "auth"
    /\ LET dk == <<socks[w].userId, socks[w].deviceId>>
       IN  IF authenticateWebSocket(socks[w].token, socks[w].userId, socks[w].deviceId)
           THEN /\ clients' = [clients EXCEPT ![socks[w].proc][dk] = w]
                /\ socks' = [socks EXCEPT ![w].pc = "setEx",
                                          ![w].did = @ \cup {"registry"},
                                          ![w].isAlive = "true"]
           ELSE /\ clients' = clients
                /\ socks' = [socks EXCEPT ![w].pc = "rejected", ![w].alive = FALSE,
                                          ![w].closing = TRUE, ![w].code = 4001]
    /\ UNCHANGED <<now, sideVars, keyVars, msgVars, gwVars, presence, users, published>>

\* setOnline: redis.setEx(`presence:${userId}:${deviceId}`, PRESENCE_TIMEOUT, 'online')
WsSetEx(w) ==
    /\ socks[w].pc = "setEx"
    /\ presence' = [presence EXCEPT ![<<socks[w].userId, socks[w].deviceId>>] =
                                      now + PresenceTimeout]
    /\ socks' = [socks EXCEPT ![w].pc = "dbOnline", ![w].did = @ \cup {"marker"}]
    /\ UNCHANGED <<now, sideVars, keyVars, msgVars, gwVars, clients, users, published>>

\* setOnline: User.findByIdAndUpdate(userId, {isOnline: true, lastSeen: new Date()})
WsDbOnline(w) ==
    /\ socks[w].pc = "dbOnline"
    /\ users' = [users EXCEPT ![socks[w].userId].isOnline = TRUE,
                              ![socks[w].userId].lastSeen = now]
    /\ socks' = [socks EXCEPT ![w].pc = "pubOnline"]
    /\ UNCHANGED <<now, sideVars, keyVars, msgVars, gwVars, clients, presence, published>>

\* setOnline: pub.publish('presence', {status: 'online'})
WsPubOnline(w) ==
    /\ socks[w].pc = "pubOnline"
    /\ Publish(socks[w].userId, socks[w].deviceId, "online")
    /\ socks' = [socks EXCEPT ![w].pc = "connected", ![w].did = @ \cup {"event"}]
    /\ UNCHANGED <<now, sideVars, keyVars, msgVars, gwVars, clients, presence, users>>

\* handleConnection after setOnline: ws.send({type: 'connected'}) throws on a socket
\* that is closed already and the catch of the connection handler closes it with
\* 4001; otherwise the presence update is published once more
WsConnected(w) ==
    /\ socks[w].pc = "connected"
    /\ IF socks[w].alive
       THEN /\ Publish(socks[w].userId, socks[w].deviceId, "online")
            /\ socks' = [socks EXCEPT ![w].pc = "register", ![w].did = @ \cup {"event"}]
       ELSE /\ published' = published
            /\ socks' = [socks EXCEPT ![w].pc = "lost"]
    /\ UNCHANGED <<now, sideVars, keyVars, msgVars, gwVars, clients, presence, users>>

\* the message, pong, close and error handlers are registered once handleConnection
\* has settled; a socket that closed before never runs its close handler, one that
\* still waits for the answer to a close frame does
WsRegister(w) ==
    /\ socks[w].pc = "register"
    /\ socks' = [socks EXCEPT ![w].pc = IF socks[w].alive \/ socks[w].closing
                                        THEN "open" ELSE "lost"]
    /\ UNCHANGED <<now, sideVars, keyVars, msgVars, gwVars, clients, presence, users, published>>

\* the connection ends before the close handler is registered: the client goes away, or
\* answers the close frame of the server
WsCloseEarly(w) ==
    /\ socks[w].pc \in {"rejected", "setEx", "dbOnline", "pubOnline", "connected",
                        "register", "lost"}
    /\ socks[w].alive \/ socks[w].closing
    /\ socks' = [socks EXCEPT ![w].alive = FALSE, ![w].closing = FALSE]
    /\ UNCHANGED <<now, sideVars, keyVars, msgVars, gwVars, clients, presence, users, published>>

\* ws.on('close'), after the client closed, the peer answered the close frame of the
\* server, or the socket was terminated: this.clients.delete(clientKey), then
\* handleDisconnection starts
\* the peer closes the socket while `await authenticateWebSocket(req)` is pending: no
\* handler is registered yet and the connection handler goes on when the await settles
WsCloseInAuth(w) ==
    /\ socks[w].pc = "auth"
    /\ socks[w].alive
    /\ socks' = [socks EXCEPT ![w].alive = FALSE]
    /\ UNCHANGED <<now, sideVars, keyVars, msgVars, gwVars, clients, presence, users, published>>

WsClose(w) ==
    /\ socks[w].pc = "open"
    /\ clients' = [clients EXCEPT ![socks[w].proc][<<socks[w].userId, socks[w].deviceId>>] = None]
    /\ socks' = [socks EXCEPT ![w].pc = "del", ![w].alive = FALSE, ![w].closing = FALSE]
    /\ UNCHANGED <<now, sideVars, keyVars, msgVars, gwVars, presence, users, published>>

\* setOffline: redis.del(`presence:${userId}:${deviceId}`)
WsDel(w) ==
    /\ socks[w].pc = "del"
    /\ presence' = [presence EXCEPT ![<<socks[w].userId, socks[w].deviceId>>] = NoDate]
    /\ socks' = [socks EXCEPT ![w].pc = "keys"]
    /\ UNCHANGED <<now, sideVars, keyVars, msgVars, gwVars, clients, users, published>>

\* setOffline: keys = redis.keys(`presence:${userId}:*`)
WsKeys(w) ==
    /\ socks[w].pc = "keys"
    /\ socks' = [socks EXCEPT ![w].keys = Cardinality(PresenceKeys(socks[w].userId)),
                              ![w].pc = IF PresenceKeys(socks[w].userId) = {}
                                        THEN "dbOffline" ELSE "pubFinal"]
    /\ UNCHANGED <<now, sideVars, keyVars, msgVars, gwVars, clients, presence, users, published>>

\* setOffline, keys.length === 0: User.findByIdAndUpdate(userId, {isOnline: false, ...})
WsDbOffline(w) ==
    /\ socks[w].pc = "dbOffline"
    /\ users' = [users EXCEPT ![socks[w].userId].isOnline = FALSE,
                              ![socks[w].userId].lastSeen = now]
    /\ socks' = [socks EXCEPT ![w].pc = "pubOffline"]
    /\ UNCHANGED <<now, sideVars, keyVars, msgVars, gwVars, clients, presence, published>>

\* setOffline, keys.length === 0: pub.publish('presence', {status: 'offline'})
WsPubOffline(w) ==
    /\ socks[w].pc = "pubOffline"
    /\ Publish(socks[w].userId, socks[w].deviceId, "offline")
    /\ socks' = [socks EXCEPT ![w].pc = "pubFinal", ![w].did = @ \cup {"event"}]
    /\ UNCHANGED <<now, sideVars, keyVars, msgVars, gwVars, clients, presence, users>>

\* handleDisconnection after setOffline: pub.publish('presence', {status: 'offline'}),
\* whatever setOffline found
WsPubFinal(w) ==
    /\ socks[w].pc = "pubFinal"
    /\ Publish(socks[w].userId, socks[w].deviceId, "offline")
    /\ socks' = [socks EXCEPT ![w].pc = "closed", ![w].did = @ \cup {"event"}]
    /\ UNCHANGED <<now, sideVars, keyVars, msgVars, gwVars, clients, presence, users>>

\* ------------------------------------------------------- heartbeat frames
\* a heartbeat frame arrives on an open socket: handleHeartbeat up to
\* `await redis.exists(key)`
HbExists(w) ==
    /\ socks[w].pc = "open"
    /\ hb[w] = "idle"
    /\ Len(published) < MaxPublished
    /\ hb' = [hb EXCEPT ![w] = IF presence[<<socks[w].userId, socks[w].deviceId>>] > now
                               THEN "expire" ELSE "setEx"]
    /\ UNCHANGED <<now, sideVars, keyVars, msgVars, busVars, sd, socks, clients, presence, users, published>>

\* heartbeat: `await redis.expire(key, PRESENCE_TIMEOUT)`, which does nothing when
\* the marker is gone by now
HbExpire(w) ==
    /\ hb[w] = "expire"
    /\ LET dk == <<socks[w].userId, socks[w].deviceId>>
       IN  presence' = IF presence[dk] > now
                       THEN [presence EXCEPT ![dk] = now + PresenceTimeout]
                       ELSE presence
    /\ hb' = [hb EXCEPT ![w] = "idle"]
    /\ UNCHANGED <<now, sideVars, keyVars, msgVars, busVars, sd, socks, clients, users, published>>

\* heartbeat without a marker, setOnline: redis.setEx
HbSetEx(w) ==
    /\ hb[w] = "setEx"
    /\ presence' = [presence EXCEPT ![<<socks[w].userId, socks[w].deviceId>>] =
                                      now + PresenceTimeout]
    /\ hb' = [hb EXCEPT ![w] = "dbOnline"]
    /\ socks' = [socks EXCEPT ![w].did = @ \cup {"marker"}]
    /\ UNCHANGED <<now, sideVars, keyVars, msgVars, busVars, sd, clients, users, published>>

\* heartbeat without a marker, setOnline: User.findByIdAndUpdate
HbDbOnline(w) ==
    /\ hb[w] = "dbOnline"
    /\ users' = [users EXCEPT ![socks[w].userId].isOnline = TRUE,
                              ![socks[w].userId].lastSeen = now]
    /\ hb' = [hb EXCEPT ![w] = "pubOnline"]
    /\ UNCHANGED <<now, sideVars, keyVars, msgVars, busVars, sd, socks, clients, presence, published>>

\* heartbeat without a marker, setOnline: pub.publish online
HbPubOnline(w) ==
    /\ hb[w] = "pubOnline"
    /\ Publish(socks[w].userId, socks[w].deviceId, "online")
    /\ hb' = [hb EXCEPT ![w] = "idle"]
    /\ socks' = [socks EXCEPT ![w].did = @ \cup {"event"}]
    /\ UNCHANGED <<now, sideVars, keyVars, msgVars, busVars, sd, clients, presence, users>>

\* ------------------------------------------------------------ message fan-out
\* a bound of the runs: the events published on the 'messages' channel
MaxEvents == 2

\* handleChatMessage: `await pub.publish('messages', {type, message, senderId: userId})`
\* reaches the subscriber of every process; the message_sent acknowledgement follows
ChatPublish(w) ==
    /\ chat[w].pc = "publish"
    /\ LET ev == [message |-> chat[w].message, senderId |-> socks[w].userId]
       IN  /\ msgEvents' = Append(msgEvents, ev)
           /\ bus' = [proc \in Procs |-> Append(bus[proc], ev)]
    /\ chat' = [chat EXCEPT ![w] = IdleChat]
    /\ UNCHANGED <<now, sideVars, keyVars, rooms, messages, sm, smRes, ak, offRes, socks, clients,
                   presence, users, published, hb, frames, sd, delRes>>

\* a faulty variant: the group branch forgets to leave out the sender of the event
MessageRecipients_WithSender(ev) ==
    IF ev.message.messageType = "direct" THEN <<ev.message.recipientId>>
    ELSE IF ev.message.messageType = "group"
    THEN [i \in DOMAIN ev.message.recipientStatuses |->
            ev.message.recipientStatuses[i].recipientId] \o <<ev.senderId>>
    ELSE <<>>

\* broadcastMessage: the users sendToUser is called for, once per call
MessageRecipients(ev) ==
    IF ev.message.messageType = "direct" THEN <<ev.message.recipientId>>
    ELSE IF ev.message.messageType = "group"
    THEN LET others == SelectSeq(ev.message.recipientStatuses,
                                 LAMBDA rs : rs.recipientId # ev.senderId)
         IN  [i \in DOMAIN others |-> others[i].recipientId]
    ELSE <<>>

\* sendToUser: the sockets of the registry of proc whose key starts with `${userId}:`
\* and whose readyState is OPEN
SocketsOf(proc, userId) ==
    {w \in Socks : /\ \E d \in DeviceIds : clients[proc][<<userId, d>>] = w
                   /\ socks[w].alive}

\* the frames one broadcastMessage adds for a socket: one per sendToUser call that
\* reaches it
RECURSIVE FramesFor(_, _, _, _)
FramesFor(w, proc, recipients, messageId) ==
    IF recipients = <<>> THEN <<>>
    ELSE (IF w \in SocketsOf(proc, Head(recipients)) THEN <<messageId>> ELSE <<>>)
         \o FramesFor(w, proc, Tail(recipients), messageId)

\* the subscriber of proc receives the next event of the 'messages' channel and runs
\* broadcastMessage
BroadcastMessage(proc) ==
    /\ bus[proc] # <<>>
    /\ sd[proc].pc # "exited"
    /\ LET ev == Head(bus[proc])
       IN  frames' = [w \in Socks |->
                        frames[w] \o FramesFor(w, proc, MessageRecipients(ev),
                                               ev.message.messageId)]
    /\ bus' = [bus EXCEPT ![proc] = Tail(@)]
    /\ UNCHANGED <<now, sideVars, keyVars, msgVars, socks, clients, presence, users, published,
                   hb, msgEvents, sd>>

\* ------------------------------------------------------------------ shutdown
\* the socket w is in the registry of some process
Registered(w) == \E proc \in Procs, dk \in DevKeys : clients[proc][dk] = w

IdleShutdown == [pc |-> "running", timer |-> FALSE, exitCode |-> None]

\* a connection of the process is over: neither OPEN nor waiting for the answer to a
\* close frame
SocketGone(w) == ~socks[w].alive /\ ~socks[w].closing

\* the sockets wss tracks for a process (wss.clients): every accepted connection
\* that is not over
Tracked(proc) == {w \in Socks : socks[w].proc = proc /\ ~SocketGone(w)}

\* ------------------------------------------------------- heartbeat timer
\* the peer of the socket stops responding: from now on it sends no pong and no frame
\* (and no close)
WsSilent(w) ==
    /\ socks[w].pc = "open"
    /\ socks[w].alive
    /\ ~socks[w].silent
    /\ socks' = [socks EXCEPT ![w].silent = TRUE]
    /\ UNCHANGED <<now, sideVars, keyVars, msgVars, gwVars, clients, presence, users, published>>

\* ws.on('pong'): a peer that responds answers the ping of the last probe, and the
\* handler, once it is registered, sets ws.isAlive = true (ws.on('message') does the
\* same for a frame)
WsPong(w) ==
    /\ socks[w].pc = "open"
    /\ socks[w].alive
    /\ ~socks[w].silent
    /\ socks[w].isAlive = "false"
    /\ socks' = [socks EXCEPT ![w].isAlive = "true"]
    /\ UNCHANGED <<now, sideVars, keyVars, msgVars, gwVars, clients, presence, users, published>>

\* a faulty variant: the probe pings and never terminates
Probed_NeverTerminates(s) == [s EXCEPT !.isAlive = "false"]

\* what one firing of the timer does to a socket of wss.clients: ws.terminate() when
\* ws.isAlive === false (the socket is destroyed; its 'close' event follows), otherwise
\* ws.isAlive = false and ws.ping()
Probed(s) ==
    IF s.isAlive = "false"
    THEN [s EXCEPT !.alive = FALSE, !.closing = FALSE]
    ELSE [s EXCEPT !.isAlive = "false"]

\* setupHeartbeat: the setInterval callback of a process fires and goes through
\* wss.clients, the sockets of the process that are not closed
HeartbeatProbe(proc) ==
    /\ sd[proc].pc = "running"
    /\ Tracked(proc) # {}
    /\ socks' = [w \in Socks |->
                   IF w \in Tracked(proc)
                   THEN [Probed(socks[w]) EXCEPT
                           !.missed = IF socks[w].silent /\ @ < MaxMissed THEN @ + 1 ELSE @]
                   ELSE socks[w]]
    /\ UNCHANGED <<now, sideVars, keyVars, msgVars, gwVars, clients, presence, users, published>>

\* SIGTERM / SIGINT: gracefulShutdown runs wsServer.shutdown() up to the promise of
\* wss.close: ws.close(1001) goes to every socket of the registry that is OPEN. What
\* wss.close() does to the sockets depends on the ws library installed (no version is
\* pinned): it leaves them alone and waits for them (ws 8), or it terminates every
\* tracked socket, whose close handler then runs if it is registered (ws 7 and before)
SdSignal(proc, terminates) ==
    /\ sd[proc].pc = "running"
    /\ sd' = [sd EXCEPT ![proc].pc = "wsClosing"]
    /\ IF terminates
       THEN /\ socks' = [w \in Socks |->
                          IF w \in Tracked(proc)
                          THEN [socks[w] EXCEPT
                                  !.pc = IF @ = "open" THEN "del" ELSE @,
                                  !.alive = FALSE, !.closing = FALSE,
                                  !.code = IF socks[w].alive /\ Registered(w) THEN 1001 ELSE @]
                          ELSE socks[w]]
            /\ clients' = [clients EXCEPT ![proc] =
                             [dk \in DevKeys |->
                                IF \E w \in Tracked(proc) :
                                     /\ socks[w].pc = "open"
                                     /\ dk = <<socks[w].userId, socks[w].deviceId>>
                                THEN None ELSE clients[proc][dk]]]
       ELSE /\ socks' = [w \in Socks |->
                          IF socks[w].alive /\ socks[w].proc = proc /\ Registered(w)
                          THEN [socks[w] EXCEPT !.alive = FALSE, !.closing = TRUE,
                                                !.code = 1001]
                          ELSE socks[w]]
            /\ clients' = clients
    /\ UNCHANGED <<now, sideVars, keyVars, msgVars, presence, users, published, hb, busVars>>

\* the callback of wss.close runs, which it does once no tracked socket is left:
\* `await wsServer.shutdown()` resumes, server.close is called and the 10 s timer is set
SdWssClosed(proc) ==
    /\ sd[proc].pc = "wsClosing"
    /\ Tracked(proc) = {}
    /\ sd' = [sd EXCEPT ![proc].pc = "httpClosing", ![proc].timer = TRUE]
    /\ UNCHANGED <<now, sideVars, keyVars, msgVars, socks, clients, presence, users, published,
                   hb, busVars>>

\* the callback of server.close runs (every HTTP connection has ended):
\* process.exit(0)
SdHttpClosed(proc) ==
    /\ sd[proc].pc = "httpClosing"
    /\ sd' = [sd EXCEPT ![proc] = [pc |-> "exited", timer |-> FALSE, exitCode |-> 0]]
    /\ UNCHANGED <<now, sideVars, keyVars, msgVars, socks, clients, presence, users, published,
                   hb, busVars>>

\* the timer of gracefulShutdown fires: process.exit(1)
SdForceExit(proc) ==
    /\ sd[proc].pc # "exited"
    /\ sd[proc].timer
    /\ sd' = [sd EXCEPT ![proc] = [pc |-> "exited", timer |-> FALSE, exitCode |-> 1]]
    /\ UNCHANGED <<now, sideVars, keyVars, msgVars, socks, clients, presence, users, published,
                   hb, busVars>>

\* ------------------------------------------------------- typing and receipts
\* this.TYPING_TIMEOUT, in ticks of the clock
TypingTimeout == 1

\* a bound of the runs: the events published on 'receipts' and 'typing:*', those
\* the frames being handled have yet to publish included, before a further frame
\* is taken
MaxSide == 5

\* the keys `typing:${conversationType}:${conversationId}:${userId}`; the
\* conversationId of a direct conversation is the other user's id
TypingKeys ==
    {<<"direct", c, u>> : c \in Users, u \in Users}
      \cup {<<"group", r, u>> : r \in RoomIds, u \in Users}

NoMarker == [at |-> NoDate, ttl |-> 0]

\* Redis keeps a key written by SETEX until its TTL has passed
Live(mk) == mk.at # NoDate /\ now < mk.at + mk.ttl

\* getTyping: the last part of every key KEYS `typing:${type}:${id}:*` returns
getTyping(conversationId, conversationType) ==
    {u \in Users : Live(typing[<<conversationType, conversationId, u>>])}

\* the handlers of typing, stop_typing, delivery_receipt and read_receipt frames
\* that can run at a time
FrameSlots == {"f1", "f2"}

IdleFrame == [pc |-> "idle", w |-> None, type |-> None, conversationType |-> None,
              conversationId |-> None, messageId |-> None, loaded |-> {}, seq |-> 0]

\* the place of a frame in the order the frames arrive in: after every frame that is
\* being handled and after every frame that published an event
NextSeq ==
    1 + Max({fr[f].seq : f \in FrameSlots}
              \cup {sideEvents[i].seq : i \in DOMAIN sideEvents} \cup {0})

\* the events the frames being handled have yet to publish
Pending ==
    Cardinality({f \in FrameSlots : fr[f].pc # "idle"})
      + Cardinality({f \in FrameSlots : fr[f].pc = "service"})

\* the handlers of the frames of a socket run once its handlers are registered
TakesFrame(f, w) ==
    /\ fr[f].pc = "idle"
    /\ socks[w].pc = "open"
    /\ socks[w].alive
    /\ Len(sideEvents) + Pending < MaxSide

\* a frame of type 'typing' arrives: handleTyping calls setTyping, which issues
\* SETEX on the client of the process before it first yields
WsTyping(f, w, conversationType, conversationId) ==
    /\ TakesFrame(f, w)
    /\ typing' = [typing EXCEPT ![<<conversationType, conversationId, socks[w].userId>>] =
                    [at |-> now, ttl |-> TypingTimeout]]
    /\ fr' = [fr EXCEPT ![f] = [IdleFrame EXCEPT !.pc = "service", !.w = w,
                                                 !.type = "typing",
                                                 !.conversationType = conversationType,
                                                 !.conversationId = conversationId,
                                                 !.seq = NextSeq]]
    /\ UNCHANGED <<now, keyRes, sideEvents, sideBus, sideFrames, keyVars, msgVars, wsVars>>

\* a faulty variant of the marker stopTyping leaves: the key is not deleted
Stopped_KeepsKey(mk) == mk

\* the marker after `redis.del(key)`
Stopped(mk) == NoMarker

\* a frame of type 'stop_typing' arrives: handleStopTyping calls stopTyping, which
\* issues DEL on the client of the process before it first yields
WsStopTyping(f, w, conversationType, conversationId) ==
    /\ TakesFrame(f, w)
    /\ typing' = [typing EXCEPT ![<<conversationType, conversationId, socks[w].userId>>] =
                    Stopped(@)]
    /\ fr' = [fr EXCEPT ![f] = [IdleFrame EXCEPT !.pc = "service", !.w = w,
                                                 !.type = "stop_typing",
                                                 !.conversationType = conversationType,
                                                 !.conversationId = conversationId,
                                                 !.seq = NextSeq]]
    /\ UNCHANGED <<now, keyRes, sideEvents, sideBus, sideFrames, keyVars, msgVars, wsVars>>

\* an event reaches the subscriber of every process
SidePublish(ev) ==
    /\ sideEvents' = Append(sideEvents, ev)
    /\ sideBus' = [proc \in Procs |-> Append(sideBus[proc], ev)]

\* `pub.publish(`typing:${conversationType}:${conversationId}`, ...)`: first by
\* setTyping / stopTyping, then once more by the handler of the frame
TypingPublish(f) ==
    /\ fr[f].pc \in {"service", "handler"}
    /\ SidePublish([channel |-> "typing", type |-> None, messageId |-> None,
                    userId |-> socks[fr[f].w].userId, deviceId |-> None,
                    conversationType |-> fr[f].conversationType,
                    conversationId |-> fr[f].conversationId,
                    isTyping |-> fr[f].type = "typing", seq |-> fr[f].seq])
    /\ fr' = [fr EXCEPT ![f] = IF @.pc = "service" THEN [@ EXCEPT !.pc = "handler"]
                               ELSE IdleFrame]
    /\ UNCHANGED <<now, keyRes, typing, sideFrames, keyVars, msgVars, wsVars>>

\* a frame of type 'delivery_receipt' (status delivered) or 'read_receipt' (status
\* read) arrives: markDelivered / markRead up to `await Message.findOne({messageId})`
WsReceipt(f, w, messageId, status) ==
    /\ TakesFrame(f, w)
    /\ \E m \in messages : m.messageId = messageId
    /\ fr' = [fr EXCEPT ![f] = [IdleFrame EXCEPT !.pc = "save", !.w = w, !.type = status,
                                                 !.messageId = messageId,
                                                 !.loaded = {m \in messages :
                                                               m.messageId = messageId},
                                                 !.seq = NextSeq]]
    /\ UNCHANGED <<now, keyRes, typing, sideEvents, sideBus, sideFrames, keyVars, msgVars, wsVars>>

\* `await message.markDelivered / markRead(recipientId, deviceId)` of the frame
\* settles: recipientId and deviceId are the user and device of the socket
ReceiptSave(f) ==
    /\ fr[f].pc = "save"
    /\ \E loaded \in fr[f].loaded :
          messages' = {IF m.id = loaded.id
                       THEN markStatus(m, loaded, socks[fr[f].w].userId,
                                       socks[fr[f].w].deviceId, fr[f].type)
                       ELSE m : m \in messages}
    /\ fr' = [fr EXCEPT ![f].pc = "publish"]
    /\ UNCHANGED <<now, keyRes, typing, sideEvents, sideBus, sideFrames, keyVars, wsVars, rooms,
                   sm, smRes, chat, ak, offRes, delRes>>

\* handleDeliveryReceipt / handleReadReceipt: `await pub.publish('receipts', ...)`
ReceiptPublish(f) ==
    /\ fr[f].pc = "publish"
    /\ SidePublish([channel |-> "receipts", type |-> fr[f].type,
                    messageId |-> fr[f].messageId, userId |-> socks[fr[f].w].userId,
                    deviceId |-> socks[fr[f].w].deviceId, conversationType |-> None,
                    conversationId |-> None, isTyping |-> FALSE, seq |-> fr[f].seq])
    /\ fr' = [fr EXCEPT ![f] = IdleFrame]
    /\ UNCHANGED <<now, keyRes, typing, sideFrames, keyVars, msgVars, wsVars>>

\* broadcast(payload, excludeUserId): the sockets of the registry of proc whose
\* readyState is OPEN and whose key does not start with `${excludeUserId}:`
BroadcastTo(proc, excludeUserId) ==
    {w \in Socks : /\ \E dk \in DevKeys : /\ clients[proc][dk] = w
                                         /\ dk[1] # excludeUserId
                   /\ socks[w].alive}

\* broadcastReceipt and broadcastTyping: the sockets the frame of an event is sent to
SideTargets(proc, ev) ==
    IF ev.channel = "receipts" THEN BroadcastTo(proc, None)
    ELSE IF ev.conversationType = "direct" THEN SocketsOf(proc, ev.conversationId)
    ELSE IF ev.conversationType = "group" THEN BroadcastTo(proc, ev.userId)
    ELSE {}

\* the frame broadcastReceipt / broadcastTyping builds from an event
SideFrame(ev) ==
    IF ev.channel = "receipts"
    THEN [type |-> IF ev.type = "delivered" THEN "delivered_receipt" ELSE "read_receipt",
          messageId |-> ev.messageId, userId |-> ev.userId, roomId |-> None,
          isTyping |-> FALSE]
    ELSE [type |-> "typing", messageId |-> None, userId |-> ev.userId,
          roomId |-> IF ev.conversationType = "group" THEN ev.conversationId ELSE None,
          isTyping |-> ev.isTyping]

\* the subscriber of proc receives the next event of 'receipts' or 'typing:*' and
\* runs broadcastReceipt / broadcastTyping
BroadcastSide(proc) ==
    /\ sideBus[proc] # <<>>
    /\ sd[proc].pc # "exited"
    /\ LET ev == Head(sideBus[proc])
       IN  sideFrames' = [w \in Socks |->
                            IF w \in SideTargets(proc, ev)
                            THEN Append(sideFrames[w], SideFrame(ev))
                            ELSE sideFrames[w]]
    /\ sideBus' = [sideBus EXCEPT ![proc] = Tail(@)]
    /\ UNCHANGED <<now, keyRes, typing, fr, sideEvents, keyVars, msgVars, wsVars>>

\* ------------------------------------------------------- key registration route
NoKeyRes == [status |-> 0, userId |-> None, deviceId |-> None, tokens |-> FALSE,
             requester |-> None]

\* optionalAuth: req.userId is set when the token verifies and its user exists and
\* is active; a missing or invalid token is passed over in silence
optionalAuth(token, tokenUser) ==
    IF token = "valid" /\ users[tokenUser].isActive THEN tokenUser ELSE None

\* POST /api/keys/register behind optionalAuth: KeyController.registerKeys registers
\* the keys for req.userId || req.body.userId and adds a token pair for that user
\* and req.body.deviceId to the answer when the request has no authorization header
PostRegisterKeys(token, tokenUser, bodyUserId, deviceId, publicKey) ==
    LET reqUserId     == optionalAuth(token, tokenUser)
        currentUserId == IF reqUserId # None THEN reqUserId ELSE bodyUserId
    IN  IF currentUserId = None
        THEN /\ keyRes' = [NoKeyRes EXCEPT !.status = 400]
             /\ UNCHANGED <<now, typing, fr, sideEvents, sideBus, sideFrames, keyVars,
                            msgVars, wsVars>>
        ELSE /\ registerDeviceKeys(currentUserId, deviceId, publicKey, None, <<>>)
             /\ keyRes' = [status |-> 201, userId |-> currentUserId,
                           deviceId |-> deviceId, tokens |-> token = "missing",
                           requester |-> reqUserId]

\* ------------------------------------------------------------ specifications
Init ==
    /\ now = 0
    /\ devices = [dk \in DevKeys |-> NoDevice]
    /\ identityKeys = [u \in Users |-> None]
    /\ prekeys = {}
    /\ nextPreKeyId = 1
    /\ regCount = 0
    /\ gk = [p \in KeyCallers |-> IdleCall]
    /\ fetchLog = [dk \in DevKeys |-> <<>>]
    /\ rd = [p \in RegSlots |-> IdleReg]
    /\ rt = IdleRotate
    /\ dc = [op \in DcOps |-> IdleDc]
    /\ rooms = [r \in RoomIds |-> NoRoom]
    /\ messages = {}
    /\ sm = [p \in SendSlots |-> IdleSend]
    /\ smRes = NoResult
    /\ ak = [p \in AckCallers |-> IdleAck]
    /\ offRes = NoSync
    /\ socks = [w \in Socks |-> FreeSock]
    /\ clients = [proc \in Procs |-> NoClients]
    /\ presence = [dk \in DevKeys |-> NoDate]
    /\ users = [u \in Users |-> [NoUser EXCEPT !.isActive = u \notin InactiveUsers]]
    /\ published = <<>>
    /\ hb = [w \in Socks |-> "idle"]
    /\ chat = [w \in Socks |-> IdleChat]
    /\ delRes = NoDelete
    /\ msgEvents = <<>>
    /\ bus = [proc \in Procs |-> <<>>]
    /\ frames = [w \in Socks |-> <<>>]
    /\ sd = [proc \in Procs |-> IdleShutdown]
    /\ typing = [k \in TypingKeys |-> NoMarker]
    /\ fr = [f \in FrameSlots |-> IdleFrame]
    /\ sideEvents = <<>>
    /\ sideBus = [proc \in Procs |-> <<>>]
    /\ sideFrames = [w \in Socks |-> <<>>]
    /\ keyRes = NoKeyRes

\* the request bodies of the key-distribution runs
RegistrationSteps(D) ==
    \/ \E u \in KeyOwners, d \in D :
         \E b \in IF d \in PoolDevices THEN Batches("k1") \cup {<<>>} ELSE {<<>>} :
           RegisterDeviceKeys(u, d, "k1", "k1", b)
    \/ \E u \in KeyOwners, d \in PoolDevices, b \in Batches("k2") : UploadPreKeys(u, d, b)

FetchSteps ==
    \/ \E p \in KeyCallers, d \in DeviceIds : GkFind(p, d)
    \/ \E p \in KeyCallers, d \in DeviceIds : GkMark(p, d)
    \/ \E p \in KeyCallers : GkReturn(p)
    \/ \E p \in KeyCallers : GkFail(p)

\* any number of processes serve getUserKeys concurrently
NextKeys ==
    \/ RegistrationSteps(DeviceIds)
    \/ \E u \in KeyOwners, d \in PoolDevices : CleanupExpiredPreKeys(u, d)
    \/ PreKeyTtlSweep
    \/ \E p \in KeyCallers, u \in KeyOwners : GkStart(p, u)
    \/ FetchSteps
    \/ Tick

SpecKeys == Init /\ [][NextKeys]_vars

\* registration and maintenance of the prekey pools, no bundle being fetched
NextPool ==
    \/ RegistrationSteps(DeviceIds)
    \/ \E u \in KeyOwners, d \in PoolDevices : CleanupExpiredPreKeys(u, d)
    \/ PreKeyTtlSweep
    \/ Tick

SpecPool == Init /\ [][NextPool]_vars

\* the prekeys are registered first, then the bundles are fetched one after the other
NextFetchSeq ==
    \/ (Returned = 0 /\ InFlight = 0 /\ RegistrationSteps(PoolDevices))
    \/ PreKeyTtlSweep
    \/ \E p \in KeyCallers, u \in KeyOwners : InFlight = 0 /\ GkStart(p, u)
    \/ FetchSteps
    \/ Tick

SpecFetchSeq == Init /\ [][NextFetchSeq]_vars

\* the continuations of the registerDeviceKeys calls
RegisterSteps ==
    \/ \E p \in RegSlots : RdSaveDevice(p)
    \/ \E p \in RegSlots : RdFindUser(p)
    \/ \E p \in RegSlots : RdSaveUser(p)
    \/ \E p \in RegSlots : RdPreKeys(p)

\* any number of processes serve POST /api/keys/register concurrently: A's devices
\* register with or without an identity key and with or without one-time prekeys
NextIdentity ==
    \/ \E p \in RegSlots, u \in KeyOwners, d \in DeviceIds :
         \E identityPublicKey \in {None} \cup PubKeys, preKeys \in {<<>>, Batch(1, 1, "k1")} :
           RdFind(p, u, d, "k1", identityPublicKey, preKeys)
    \/ RegisterSteps

SpecIdentity == Init /\ [][NextIdentity]_vars
\* the continuations of the rotateDeviceKeys call
RotateSteps ==
    \/ RtSave
    \/ RtDelete
    \/ RtRegister

\* one request at a time: A's device registers prekeys, bundles are fetched, and the
\* device rotates its keys, with or without a new pool of one-time prekeys
NextRotate ==
    \/ (InFlight = 0 /\ rt.pc = "idle" /\ RegistrationSteps(PoolDevices))
    \/ \E p \in KeyCallers, u \in KeyOwners : InFlight = 0 /\ rt.pc = "idle" /\ GkStart(p, u)
    \/ \E p \in KeyCallers, d \in DeviceIds : GkFind(p, d)
    \/ \E p \in KeyCallers, d \in DeviceIds : GkMark(p, d)
    \/ \E p \in KeyCallers : GkReturn(p)
    \/ \E u \in KeyOwners, d \in PoolDevices, publicKey \in {None, "k2"} :
         \E preKeys \in Batches("k2") \cup {<<>>} :
           InFlight = 0 /\ RtFind(u, d, publicKey, publicKey, preKeys)
    \/ RotateSteps
    \/ (InFlight = 0 /\ rt.pc = "idle" /\ Tick)

SpecRotate == Init /\ [][NextRotate]_vars

\* ---------------------------------------------------- message specifications
\* the request bodies of the message runs: the participants arrays of POST /api/rooms
RoomRequests == SeqsUpTo(Users, 2) \ {<<>>}

\* direct and group bodies, with the addressing field present, missing or unknown
SendPayloads(ids, recipients, roomIds, content) ==
    {Payload(x, "direct", u, None, content) : x \in ids, u \in recipients}
      \cup {Payload(x, "group", None, r, content) : x \in ids, r \in roomIds}

RoomSteps(requests) ==
    \/ \E r \in RoomIds, participants \in requests : CreateRoom(r, "A", participants)
    \/ \E r \in RoomIds, u \in Users : AddParticipant(r, "A", u)
    \/ \E r \in RoomIds, u \in Users : RemoveParticipant(r, "A", u)

SendSteps(maxDocs) ==
    \/ \E p \in SendSlots : SmLookup(p)
    \/ \E p \in SendSlots : Cardinality(messages) < maxDocs /\ SmCreate(p)

\* any number of processes serve sendMessage concurrently; the room, once created,
\* keeps its roster
NextSend ==
    \/ \E r \in RoomIds : CreateRoom(r, "A", <<"B">>)
    \/ \E p \in SendSlots, senderId \in {"A", "B"} :
         \E data \in SendPayloads({"m1", "m2"}, {None, "B", UnknownUser},
                                   {None, "r1"}, ContentOf(p)) :
           SmFind(p, senderId, "d1", data)
    \/ SendSteps(MaxMsgDocs)

SpecSend == Init /\ [][NextSend]_vars

NoSendInFlight == \A p \in SendSlots : sm[p].pc = "idle"

\* group messages are sent one after the other while the roster of the room changes
NextRoster ==
    \/ RoomSteps(RoomRequests)
    \/ \E p \in SendSlots, senderId \in {"A", "B"} :
         \E data \in SendPayloads({"m1", "m2"}, {}, {"r1"}, ContentOf(p)) :
           NoSendInFlight /\ SmFind(p, senderId, "d1", data)
    \/ SendSteps(MaxMsgDocs)

SpecRoster == Init /\ [][NextRoster]_vars

AckSteps ==
    \/ \E p \in AckCallers, status \in Statuses, deviceId \in DeviceIds :
         \E messageIds \in (SUBSET {"m1", "m2"}) \ {{}} :
           AkLoad(p, messageIds, status, deviceId)
    \/ \E p \in AckCallers : \E loaded \in ak[p].loaded : AkSave(p, loaded)

\* A sends direct messages to B and group messages to the room [A, B, C], each
\* messageId once; B and C acknowledge them concurrently, one by one or in bulk
NextAck ==
    \/ \E r \in RoomIds : CreateRoom(r, "A", <<"B", "C">>)
    \/ \E data \in SendPayloads({"m1", "m2"}, {"B"}, {"r1"}, ContentOf("s1")) :
         findOne(data.messageId) = {} /\ SmFind("s1", "A", "d1", data)
    \/ SendSteps(MaxMsgDocs)
    \/ AckSteps

SpecAck == Init /\ [][NextAck]_vars

\* the i-th envelope of a run has the i-th messageId
NextMessageId == MessageIdSeq[(Cardinality(messages) % Len(MessageIdSeq)) + 1]

\* no sendMessage, no acknowledgement and no getOfflineMessages request is under way
Quiet == NoSendInFlight /\ (\A p \in AckCallers : ak[p].pc = "idle") /\ offRes = NoSync

\* one request at a time: A sends direct messages to B and to C and group messages
\* to the room [A, B, C], each messageId once; B marks them delivered, A deletes its
\* first message, B leaves the room and time passes; A and B fetch their offline
\* messages
NextSync ==
    \/ \E r \in RoomIds : Quiet /\ CreateRoom(r, "A", <<"B", "C">>)
    \/ \E r \in RoomIds : Quiet /\ RemoveParticipant(r, "B", "B")
    \/ \E data \in SendPayloads({NextMessageId}, {"B", "C"}, {"r1"}, ContentOf("s1")) :
         Quiet /\ findOne(data.messageId) = {} /\ SmFind("s1", "A", "d1", data)
    \/ SendSteps(MaxSyncDocs)
    \/ \E messageId \in MessageIds : Quiet /\ AkLoad("B", {messageId}, "delivered", "d1")
    \/ \E loaded \in ak["B"].loaded : AkSave("B", loaded)
    \/ \E messageId \in {"m1"} :
         Quiet /\ findOne(messageId) # {} /\ DeleteMessage(messageId, "A")
    \/ \E userId \in {"A", "B"}, lastSyncTime \in SyncTimes :
         Quiet /\ GetOfflineMessages(userId, lastSyncTime)
    \/ SyncDone
    \/ Quiet /\ Tick

SpecSync == Init /\ [][NextSync]_vars

\* one request at a time: A sends direct messages to B and group messages to the
\* room [A, B, C]; any user asks to delete any of the ids, stored or not; B fetches
\* its offline messages and time passes
NextDelete ==
    \/ \E r \in RoomIds : Quiet /\ CreateRoom(r, "A", <<"B", "C">>)
    \/ \E data \in SendPayloads({"m1", "m2"}, {"B"}, {"r1"}, ContentOf("s1")) :
         Quiet /\ findOne(data.messageId) = {} /\ SmFind("s1", "A", "d1", data)
    \/ SendSteps(MaxMsgDocs)
    \/ \E messageId \in {"m1", "m2"}, userId \in Users :
         Quiet /\ DeleteMessage(messageId, userId)
    \/ \E lastSyncTime \in SyncTimes : Quiet /\ GetOfflineMessages("B", lastSyncTime)
    \/ SyncDone
    \/ Quiet /\ Tick

SpecDelete == Init /\ [][NextDelete]_vars

\* ------------------------------------------------------ presence specification
ConnectSteps ==
    \/ \E w \in Socks : WsAuthenticate(w)
    \/ \E w \in Socks : WsSetEx(w)
    \/ \E w \in Socks : WsDbOnline(w)
    \/ \E w \in Socks : WsPubOnline(w)
    \/ \E w \in Socks : WsConnected(w)
    \/ \E w \in Socks : WsRegister(w)

CloseSteps ==
    \/ \E w \in Socks : WsDel(w)
    \/ \E w \in Socks : WsKeys(w)
    \/ \E w \in Socks : WsDbOffline(w)
    \/ \E w \in Socks : WsPubOffline(w)
    \/ \E w \in Socks : WsPubFinal(w)

\* A registers devices and connects from them; the clients close their sockets at
\* any time, and the handlers of the sockets interleave at every store call
NextPresence ==
    \/ \E u \in WsUsers, d \in DeviceIds : RegisterDeviceKeys(u, d, "k1", "k1", <<>>)
    \/ \E w \in Socks, u \in WsUsers, d \in DeviceIds : WsConnect(w, "p1", "valid", u, d)
    \/ ConnectSteps
    \/ \E w \in Socks : WsCloseEarly(w)
    \/ \E w \in Socks : WsClose(w)
    \/ CloseSteps
    \/ Tick

SpecPresence == Init /\ [][NextPresence]_vars

HeartbeatSteps ==
    \/ \E w \in Socks : HbExpire(w)
    \/ \E w \in Socks : HbSetEx(w)
    \/ \E w \in Socks : HbDbOnline(w)
    \/ \E w \in Socks : HbPubOnline(w)

\* ----------------------------------------------------- revocation specification
DeviceSteps ==
    \/ LoginSave
    \/ LoginUserSave
    \/ LogoutSave
    \/ LogoutCount
    \/ LogoutUserUpdate
    \/ RevokeSave

\* the calls and socket handlers that are between their first store call and their end
Busy ==
    Cardinality({p \in RegSlots : rd[p].pc # "idle"})
      + Cardinality({op \in DcOps : dc[op].pc # "idle"})
      + Cardinality({p \in KeyCallers : gk[p].pc # "idle"})
      + Cardinality({w \in Socks : socks[w].pc \notin {"free", "open", "closed", "rejected", "lost"}})
      + Cardinality({w \in Socks : hb[w] # "idle"})
      + Cardinality({p \in SendSlots : sm[p].pc # "idle"})
      + Cardinality({w \in Socks : chat[w].pc = "publish"})
      + (IF rt.pc # "idle" THEN 1 ELSE 0)

\* A's device d1 registers, rotates its keys, logs in and out, connects and sends
\* heartbeats while B fetches A's bundle, and it is revoked from either of A's
\* devices at any point; up to MaxBusy calls run at a time and interleave at every
\* store call; the presence marker of the open socket may run out
NextRevoke ==
    \/ \E d \in DeviceIds : Busy < MaxBusy /\ RdFind("g1", "A", d, "k1", "k1", <<>>)
    \/ RegisterSteps
    \/ Busy < MaxBusy /\ RtFind("A", "d1", "k2", "k2", <<>>)
    \/ RtSave
    \/ Busy < MaxBusy /\ LoginFind("A", "d1")
    \/ Busy < MaxBusy /\ LogoutFind("A", "d1")
    \/ \E by \in DeviceIds : Busy < MaxBusy /\ RevokeFind("A", by, "d1")
    \/ DeviceSteps
    \/ Busy < MaxBusy /\ GkStart("B", "A")
    \/ \E d \in DeviceIds : GkFind("B", d)
    \/ GkReturn("B")
    \/ Busy < MaxBusy /\ WsConnect("w1", "p1", "valid", "A", "d1")
    \/ ConnectSteps
    \/ Busy < MaxBusy /\ WsClose("w1")
    \/ CloseSteps
    \/ Busy < MaxBusy /\ HbExists("w1")
    \/ HeartbeatSteps
    \/ Busy = 0 /\ socks["w1"].pc = "open" /\ Tick

SpecRevoke == Init /\ [][NextRevoke]_vars

\* ----------------------------------------------------- handshake specification
\* the users whose tokens arrive at the gateway: A and the deactivated C
HandshakeUsers == {"A", "C"}

\* A and C register devices and A revokes its device d1; upgrade requests arrive with
\* a missing, an invalid or a valid token for any of the devices; the sockets go
\* through their connection and close handling
NextHandshake ==
    \/ \E u \in HandshakeUsers, d \in DeviceIds : RegisterDeviceKeys(u, d, "k1", "k1", <<>>)
    \/ \E by \in DeviceIds : RevokeFind("A", by, "d1")
    \/ RevokeSave
    \/ \E w \in Socks, token \in Tokens, u \in HandshakeUsers, d \in DeviceIds :
         WsConnect(w, "p1", token, u, d)
    \/ ConnectSteps
    \/ \E w \in Socks : WsCloseEarly(w)
    \/ \E w \in Socks : WsClose(w)
    \/ CloseSteps

SpecHandshake == Init /\ [][NextHandshake]_vars

\* ------------------------------------------------------- shutdown specification
Running == sd["p1"].pc # "exited"

\* the process p1 serves connections of A's devices until a signal arrives; after the
\* signal the WebSocket server accepts no connection, the handlers under way go on,
\* and the process does nothing once it has exited
NextShutdown ==
    \/ \E d \in DeviceIds : sd["p1"].pc = "running" /\ RegisterDeviceKeys("A", d, "k1", "k1", <<>>)
    \/ \E w \in Socks, d \in DeviceIds :
         sd["p1"].pc = "running" /\ WsConnect(w, "p1", "valid", "A", d)
    \/ Running /\ ConnectSteps
    \/ \E w \in Socks : Running /\ WsCloseEarly(w)
    \/ \E w \in Socks : Running /\ WsClose(w)
    \/ Running /\ CloseSteps
    \/ \E terminates \in BOOLEAN : SdSignal("p1", terminates)
    \/ SdWssClosed("p1")
    \/ SdHttpClosed("p1")
    \/ SdForceExit("p1")

\* what the process and the ws library do for certain: the handlers under way take
\* their next step, a socket whose close frame stays unanswered is destroyed when
\* the close timer of the library runs out, the callback of wss.close runs once no
\* socket is left, and a timer that is set fires. Nothing makes a client close its
\* socket or the last HTTP connection end
FairShutdown ==
    /\ WF_vars(Running /\ ConnectSteps)
    /\ WF_vars(Running /\ CloseSteps)
    /\ WF_vars(\E w \in Socks : Running /\ socks[w].closing /\ (WsClose(w) \/ WsCloseEarly(w)))
    /\ WF_vars(SdWssClosed("p1"))
    /\ WF_vars(SdForceExit("p1"))

SpecShutdown == Init /\ [][NextShutdown]_vars /\ FairShutdown

\* -------------------------------------------------------- fan-out specification
\* the users that connect to the gateway in the message runs, and the device of each
\* (a deviceId is unique among all users)
ChatUsers == {"A", "B"}
DeviceOf(u) == IF u = "A" THEN "d1" ELSE "d2"

\* the frames whose handling is under way, and the events they published
ChatLoad == Len(msgEvents) + Cardinality({w \in Socks : chat[w].pc # "idle"})

FanoutSteps ==
    \/ \E w \in Socks : ChatPublish(w)
    \/ \E proc \in Procs : BroadcastMessage(proc)

\* nothing of a send is under way: no sendMessage call, no frame being handled, no
\* event waiting at a subscriber
FanoutQuiet ==
    /\ \A p \in SendSlots : sm[p].pc = "idle"
    /\ \A w \in Socks : chat[w].pc = "idle"
    /\ \A proc \in Procs : bus[proc] = <<>>

\* A and B register a device, A creates the room r1 with B and C; A connects to the
\* process p1 and B to either process; messages to B and to the room are sent
\* in frames of the open sockets, also with the id of a message that is stored; the
\* socket of B closes at any time; up to MaxBusy handlers run at a time
NextFanout ==
    \/ \E u \in ChatUsers : RegisterDeviceKeys(u, DeviceOf(u), "k1", "k1", <<>>)
    \/ CreateRoom("r1", "A", <<"B", "C">>)
    \/ Busy < MaxBusy /\ WsConnect("w1", "p1", "valid", "A", "d1")
    \/ \E proc \in Procs : Busy < MaxBusy /\ WsConnect("w2", proc, "valid", "B", "d2")
    \/ ConnectSteps
    \/ Busy < MaxBusy /\ WsClose("w2")
    \/ CloseSteps
    \/ \E w \in Socks :
         \E data \in SendPayloads({"m1", "m2"}, {"B"}, {"r1"}, ContentOf("s2")) :
           Busy < MaxBusy /\ ChatLoad < MaxEvents /\ WsMessage(w, "s2", data)
    \/ SendSteps(MaxMsgDocs)
    \/ FanoutSteps

SpecFanout == Init /\ [][NextFanout]_vars

\* the demo flow: A and B register a device, A connects; A sends direct messages to B
\* by POST /api/messages/send and in frames of its socket while B has never
\* connected; when nothing of a send is under way any more, B connects
NextOffline ==
    \/ \E u \in ChatUsers : RegisterDeviceKeys(u, DeviceOf(u), "k1", "k1", <<>>)
    \/ \E proc \in Procs : WsConnect("w1", proc, "valid", "A", "d1")
    \/ \E proc \in Procs : FanoutQuiet /\ WsConnect("w2", proc, "valid", "B", "d2")
    \/ ConnectSteps
    \/ \E x \in {"m1", "m2"} :
         /\ socks["w2"].pc = "free"
         /\ ChatLoad < MaxEvents
         /\ WsMessage("w1", "s2", Payload(x, "direct", "B", None, ContentOf("s2")))
    \/ \E x \in {"m1", "m2"} :
         /\ socks["w2"].pc = "free"
         /\ SmFind("s1", "A", "d1", Payload(x, "direct", "B", None, ContentOf("s1")))
    \/ SendSteps(MaxMsgDocs)
    \/ FanoutSteps
    \/ Tick

SpecOffline == Init /\ [][NextOffline]_vars

\* ------------------------------------------------- sends of a revoked device
\* POST /api/messages/send behind authenticateToken: the request of a device that is
\* unknown or revoked is answered 401 and sendMessage is not called
HttpSend(p, userId, deviceId, data) ==
    /\ authenticateToken(userId, deviceId)
    /\ SmFind(p, userId, deviceId, data)

\* A registers its device d1 and B its device d2, A connects from d1 and A revokes
\* d1 from d1 itself; A's device sends direct messages to B by POST
\* /api/messages/send and in frames of its socket; one call or handler runs at a
\* time, so that every send starts before or after the revocation, never during it
NextRevokedSend ==
    \/ \E u \in ChatUsers : RegisterDeviceKeys(u, DeviceOf(u), "k1", "k1", <<>>)
    \/ Busy = 0 /\ WsConnect("w1", "p1", "valid", "A", "d1")
    \/ \E proc \in Procs : Busy = 0 /\ WsConnect("w2", proc, "valid", "B", "d2")
    \/ ConnectSteps
    \/ Busy = 0 /\ RevokeFind("A", "d1", "d1")
    \/ RevokeSave
    \/ \E x \in {"m1", "m2"} :
         /\ Busy = 0
         /\ ChatLoad < MaxEvents
         /\ WsMessage("w1", "s2", Payload(x, "direct", "B", None, ContentOf("s2")))
    \/ \E x \in {"m1", "m2"} :
         /\ Busy = 0
         /\ HttpSend("s1", "A", "d1", Payload(x, "direct", "B", None, ContentOf("s1")))
    \/ SendSteps(MaxMsgDocs)
    \/ FanoutSteps

SpecRevokedSend == Init /\ [][NextRevokedSend]_vars

\* ------------------------------------------------- repeated acknowledgements
\* the envelope already carries the transition of the call markDelivered / markRead
\* (status) for (recipientId, deviceId)
AlreadyMarked(m, recipientId, deviceId, status) ==
    IF m.messageType = "direct"
    THEN m.deliveryStatus = status
    ELSE LET i == findStatus(m.recipientStatuses, recipientId, deviceId)
         IN  i # 0 /\ m.recipientStatuses[i].status = status

\* A sends a direct and a group message; B acknowledges them from d2, one call after
\* the other, each call for one messageId, while the clock advances
NextMarkTwice ==
    \/ \E r \in RoomIds : CreateRoom(r, "A", <<"B", "C">>)
    \/ \E data \in SendPayloads({"m1", "m2"}, {"B"}, {"r1"}, ContentOf("s1")) :
         findOne(data.messageId) = {} /\ SmFind("s1", "A", "d1", data)
    \/ SendSteps(MaxMsgDocs)
    \/ \E status \in Statuses, x \in {"m1", "m2"} : AkLoad("B", {x}, status, "d2")
    \/ \E loaded \in ak["B"].loaded : AkSave("B", loaded)
    \/ Tick

SpecMarkTwice == Init /\ [][NextMarkTwice]_vars

\* ------------------------------------------------- bulk acknowledgements
\* the envelopes of a batch
BatchIds == {"m1", "m2"}

\* A sends the direct messages m1 and m2 to B; once both are stored, B acknowledges
\* them with bulkUpdateStatus([m1, m2], B, d2, status), one call after the other
NextBulk ==
    \/ \E x \in BatchIds, c \in {"c1", "c2"} :
         /\ findOne(x) = {} /\ NoSendInFlight
         /\ SmFind("s1", "A", "d1", Payload(x, "direct", "B", None, c))
    \/ SendSteps(MaxMsgDocs)
    \/ \E status \in Statuses :
         /\ \A x \in BatchIds : findOne(x) # {}
         /\ AkLoad("B", BatchIds, status, "d2")
    \/ \E loaded \in ak["B"].loaded : AkSave("B", loaded)
    \/ Tick

SpecBulk == Init /\ [][NextBulk]_vars

\* ------------------------------------------------- sendMessage calls that fail
\* a sendMessage call ends with an error in this step
SendFails ==
    /\ smRes'.status = "error"
    /\ \/ smRes' # smRes
       \/ \E p \in SendSlots : sm[p].pc # "idle" /\ sm'[p].pc = "idle"

\* A sends over POST /api/messages/send (slot s1) and in frames of its socket w1
\* (slot s2), concurrently and with the same messageIds: payloads without recipientId
\* or roomId, to an unknown recipient, to the room before it exists, to a room A is
\* not a participant of, and valid ones
NextFailedSend ==
    \/ RegisterDeviceKeys("A", "d1", "k1", "k1", <<>>)
    \/ Busy = 0 /\ WsConnect("w1", "p1", "valid", "A", "d1")
    \/ ConnectSteps
    \/ \E creator \in {"A", "B"} : CreateRoom("r1", creator, <<"C">>)
    \/ \E data \in SendPayloads({"m1", "m2"}, {None, "B", UnknownUser}, {None, "r1"},
                                ContentOf("s1")) :
         SmFind("s1", "A", "d1", data)
    \/ \E data \in SendPayloads({"m1", "m2"}, {None, "B", UnknownUser}, {None, "r1"},
                                ContentOf("s2")) :
         ChatLoad < MaxEvents /\ WsMessage("w1", "s2", data)
    \/ SendSteps(MaxMsgDocs)
    \/ FanoutSteps

SpecFailedSend == Init /\ [][NextFailedSend]_vars

\* ------------------------------------------------- malformed key encodings
\* a string that is not base64: isValidBase64 returns false for it
MalformedKey == "%%"

\* a key field of the call holds a malformed encoding
HasMalformedKey(c) ==
    \/ ~isValidBase64(c.publicKey)
    \/ ~isValidBase64(c.signedPreKey)
    \/ c.identityPublicKey # None /\ ~isValidBase64(c.identityPublicKey)
    \/ \E i \in DOMAIN c.preKeys : ~isValidBase64(c.preKeys[i].publicKey)

\* A registers the keys of d1, one call after the other, in calls whose key fields
\* are well-formed or malformed, each field on its own
NextMalformed ==
    \/ \E publicKey \in {"k1", MalformedKey}, signedPreKey \in {"k1", MalformedKey},
          identityPublicKey \in {None, "k1", MalformedKey},
          preKeys \in {<<>>, Batch(1, 1, "k1"), Batch(2, 2, MalformedKey)} :
         /\ Busy = 0
         /\ RdFindKeys("g1", "A", "d1", publicKey, signedPreKey, identityPublicKey, preKeys)
    \/ RegisterSteps

SpecMalformed == Init /\ [][NextMalformed]_vars

\* ------------------------------------------------- handshakes of inactive devices
\* A's device d1 is registered, logs in and out and is revoked while sockets are
\* opened for it with its access token; one request or handler runs at a time
NextInactiveConnect ==
    \/ RegisterDeviceKeys("A", "d1", "k1", "k1", <<>>)
    \/ Busy = 0 /\ LoginFind("A", "d1")
    \/ Busy = 0 /\ LogoutFind("A", "d1")
    \/ Busy = 0 /\ RevokeFind("A", "d1", "d1")
    \/ DeviceSteps
    \/ \E w \in Socks : Busy = 0 /\ WsConnect(w, "p1", "valid", "A", "d1")
    \/ ConnectSteps
    \/ \E w \in Socks : Busy = 0 /\ WsClose(w)
    \/ CloseSteps

SpecInactiveConnect == Init /\ [][NextInactiveConnect]_vars

\* ------------------------------------------------- key uploads for a revoked device
\* A has the devices d1 and d2; d2 revokes d1; keys are registered and rotated for
\* both, from requests authenticated by d2, one request at a time
NextRevokedKeys ==
    \/ \E d \in DeviceIds : RegisterDeviceKeys("A", d, "k1", None, Batch(1, 1, "k1"))
    \/ Busy = 0 /\ authenticateToken("A", "d2") /\ RevokeFind("A", "d2", "d1")
    \/ RevokeSave
    \/ \E d \in DeviceIds, identityPublicKey \in {None, "k2"},
          preKeys \in {<<>>, Batch(2, 2, "k2")} :
         /\ Busy = 0 /\ authenticateToken("A", "d2")
         /\ RdFindKeys("g1", "A", d, "k2", "k2", identityPublicKey, preKeys)
    \/ RegisterSteps
    \/ \E d \in DeviceIds, preKeys \in {<<>>, Batch(2, 2, "k2")} :
         /\ Busy = 0 /\ authenticateToken("A", "d2")
         /\ RtFind("A", d, "k2", "k2", preKeys)
    \/ RotateSteps

SpecRevokedKeys == Init /\ [][NextRevokedKeys]_vars

\* ------------------------------------------------- the liveness check
\* the close event of a socket: its peer closed it, or the probe terminated it; a
\* silent peer does not close
CloseEvent(w) ==
    /\ ~socks[w].silent \/ ~socks[w].alive
    /\ WsClose(w)

\* A's device d1 opens sockets on one process (the second displaces the first); a
\* peer answers the pings until it stops responding; the heartbeat timer fires
NextLiveness ==
    \/ RegisterDeviceKeys("A", "d1", "k1", "k1", <<>>)
    \/ \E w \in Socks : Busy = 0 /\ WsConnect(w, "p1", "valid", "A", "d1")
    \/ ConnectSteps
    \/ \E w \in Socks : WsSilent(w)
    \/ \E w \in Socks : WsPong(w)
    \/ HeartbeatProbe("p1")
    \/ \E w \in Socks : CloseEvent(w)
    \/ CloseSteps

SpecLiveness == Init /\ [][NextLiveness]_vars

\* the socket was put into the registry of its process, is not closed, and the entry
\* of its (userId, deviceId) now holds another socket
Displaced(w) ==
    /\ ~SocketGone(w)
    /\ "registry" \in socks[w].did
    /\ \E v \in Socks \ {w} :
         clients[socks[w].proc][<<socks[w].userId, socks[w].deviceId>>] = v

\* the heartbeat timer of the process keeps firing
FairLiveness == WF_vars(HeartbeatProbe("p1"))

SpecLivenessFair == SpecLiveness /\ FairLiveness

\* ------------------------------------------------- sockets that close during setup
\* no handler is running and no socket waits for the answer to a close frame
Quiescent == Busy = 0 /\ \A w \in Socks : ~socks[w].closing

\* A's device d1 opens sockets on one process; a socket closes at any moment of its
\* life: during the authentication, during handleConnection, or once it is set up
NextSetupClose ==
    \/ RegisterDeviceKeys("A", "d1", "k1", "k1", <<>>)
    \/ \E w \in Socks, token \in {"valid", "invalid"} :
         Busy = 0 /\ WsConnect(w, "p1", token, "A", "d1")
    \/ ConnectSteps
    \/ \E w \in Socks : WsCloseInAuth(w)
    \/ \E w \in Socks : WsCloseEarly(w)
    \/ \E w \in Socks : WsClose(w)
    \/ CloseSteps

SpecSetupClose == Init /\ [][NextSetupClose]_vars

\* ------------------------------------------------- batches that collide with the pool
\* A registers and uploads prekeys for d1, also with keyIds that are stored already,
\* while B and C fetch its bundle, one request at a time
NextCollide ==
    \/ InFlight = 0 /\ RegistrationSteps(PoolDevices)
    \/ \E p \in KeyCallers, u \in KeyOwners : InFlight = 0 /\ GkStart(p, u)
    \/ \E p \in KeyCallers, d \in DeviceIds : GkFind(p, d)
    \/ \E p \in KeyCallers, d \in DeviceIds : GkMark(p, d)
    \/ \E p \in KeyCallers : GkReturn(p)

SpecCollide == Init /\ [][NextCollide]_vars

\* ------------------------------------------------- the persisted online flag
\* a presence marker of the user exists (its TTL has not run out)
HasMarker(u) == \E d \in DeviceIds : presence[<<u, d>>] > now

\* A's devices d1 and d2 connect to different processes, send heartbeat frames and
\* disconnect, two handlers at most running at a time, while the markers expire
NextOnline ==
    \/ \E d \in DeviceIds : RegisterDeviceKeys("A", d, "k1", "k1", <<>>)
    \/ Busy < MaxBusy /\ WsConnect("w1", "p1", "valid", "A", "d1")
    \/ Busy < MaxBusy /\ WsConnect("w2", "p2", "valid", "A", "d2")
    \/ ConnectSteps
    \/ \E w \in Socks : Busy < MaxBusy /\ HbExists(w)
    \/ HeartbeatSteps
    \/ \E w \in Socks : Busy < MaxBusy /\ WsClose(w)
    \/ CloseSteps
    \/ Tick

SpecOnline == Init /\ [][NextOnline]_vars

\* the conversations of the typing frames of the runs
TypingIn == {<<"direct", "B">>, <<"group", "r1">>}

\* A registers a device and connects; A sends typing and stop_typing frames for a
\* direct conversation and a room, up to two frames are handled at a time and
\* markers run out
NextTyping ==
    \/ RegisterDeviceKeys("A", "d1", "k1", "k1", <<>>)
    \/ WsConnect("w1", "p1", "valid", "A", "d1")
    \/ ConnectSteps
    \/ \E f \in FrameSlots, c \in TypingIn : WsTyping(f, "w1", c[1], c[2])
    \/ \E f \in FrameSlots, c \in TypingIn : WsStopTyping(f, "w1", c[1], c[2])
    \/ \E f \in FrameSlots : TypingPublish(f)
    \/ Tick

SpecTyping == Init /\ [][NextTyping]_vars

\* ------------------------------------------------- receipt frames
\* a bound of the runs: the receipt frames taken
MaxReceipts == 2

\* A registers its device d1 and B its device d2, both connect, and A sends B the
\* direct message m1; delivery_receipt and read_receipt frames for m1 arrive on
\* either socket, up to two are handled at a time and interleave at every store
\* call
NextReceipts ==
    \/ \E u \in ChatUsers : RegisterDeviceKeys(u, DeviceOf(u), "k1", "k1", <<>>)
    \/ Busy = 0 /\ WsConnect("w1", "p1", "valid", "A", "d1")
    \/ Busy = 0 /\ WsConnect("w2", "p2", "valid", "B", "d2")
    \/ ConnectSteps
    \/ /\ findOne("m1") = {}
       /\ SmFind("s1", "A", "d1", Payload("m1", "direct", "B", None, ContentOf("s1")))
    \/ SendSteps(MaxMsgDocs)
    \/ \E f \in FrameSlots, w \in Socks, status \in Statuses :
         Len(sideEvents) + Pending < MaxReceipts /\ WsReceipt(f, w, "m1", status)
    \/ \E f \in FrameSlots : ReceiptSave(f)
    \/ \E f \in FrameSlots : ReceiptPublish(f)

SpecReceipts == Init /\ [][NextReceipts]_vars

\* ------------------------------------------------- receipt and typing fan-out
\* A registers its device d1 and B its device d2, A creates the room r1 with C, both
\* connect to the process p1 and A sends B the direct message m1; B's socket sends
\* receipt frames for m1 and A's socket typing frames for r1, one frame is handled
\* at a time, and the events fan out to the sockets of either process
NextSideFanout ==
    \/ \E u \in ChatUsers : RegisterDeviceKeys(u, DeviceOf(u), "k1", "k1", <<>>)
    \/ CreateRoom("r1", "A", <<"C">>)
    \/ Busy = 0 /\ WsConnect("w1", "p1", "valid", "A", "d1")
    \/ Busy = 0 /\ WsConnect("w2", "p1", "valid", "B", "d2")
    \/ ConnectSteps
    \/ /\ findOne("m1") = {}
       /\ SmFind("s1", "A", "d1", Payload("m1", "direct", "B", None, ContentOf("s1")))
    \/ SendSteps(MaxMsgDocs)
    \/ \E status \in Statuses :
         Len(sideEvents) < MaxReceipts /\ WsReceipt("f1", "w2", "m1", status)
    \/ ReceiptSave("f1")
    \/ ReceiptPublish("f1")
    \/ Len(sideEvents) < MaxReceipts /\ WsTyping("f1", "w1", "group", "r1")
    \/ TypingPublish("f1")
    \/ \E proc \in Procs : BroadcastSide(proc)

SpecSideFanout == Init /\ [][NextSideFanout]_vars

\* ------------------------------------------------- sends with a stored messageId
\* the user whose socket hands its frames to the call slot
CallerOf(p) == IF p = "s1" THEN "A" ELSE "B"

\* A registers its device d1 and B its device d2 and both connect; each sends
\* direct messages to C in frames of its socket, with the messageIds m1 and m2, A
\* through the call slot s1 and B through s2; one handler runs at a time
NextResend ==
    \/ \E u \in ChatUsers : RegisterDeviceKeys(u, DeviceOf(u), "k1", "k1", <<>>)
    \/ Busy = 0 /\ WsConnect("w1", "p1", "valid", "A", "d1")
    \/ Busy = 0 /\ WsConnect("w2", "p2", "valid", "B", "d2")
    \/ ConnectSteps
    \/ \E x \in {"m1", "m2"}, w \in Socks, p \in SendSlots :
         /\ Busy = 0
         /\ ChatLoad < MaxEvents
         /\ socks[w].userId = CallerOf(p)
         /\ WsMessage(w, p, Payload(x, "direct", "C", None, ContentOf(p)))
    \/ SendSteps(MaxMsgDocs)
    \/ FanoutSteps

SpecResend == Init /\ [][NextResend]_vars

\* ------------------------------------------------- frames for a revoked device
\* A registers its device d1 and B its device d2 and both connect; B revokes d2
\* from d2 itself while A sends B direct messages in frames of its socket; one call
\* or handler runs at a time
NextRevokedReceive ==
    \/ \E u \in ChatUsers : RegisterDeviceKeys(u, DeviceOf(u), "k1", "k1", <<>>)
    \/ Busy = 0 /\ WsConnect("w1", "p1", "valid", "A", "d1")
    \/ \E proc \in Procs : Busy = 0 /\ WsConnect("w2", proc, "valid", "B", "d2")
    \/ ConnectSteps
    \/ Busy = 0 /\ RevokeFind("B", "d2", "d2")
    \/ RevokeSave
    \/ \E x \in {"m1", "m2"} :
         /\ Busy = 0
         /\ ChatLoad < MaxEvents
         /\ WsMessage("w1", "s2", Payload(x, "direct", "B", None, ContentOf("s2")))
    \/ SendSteps(MaxMsgDocs)
    \/ FanoutSteps

SpecRevokedReceive == Init /\ [][NextRevokedReceive]_vars

\* ------------------------------------------------- key registration requests
\* requests to POST /api/keys/register with a valid token of any user, an invalid
\* one or none, with and without a userId in the body, for either device
NextOpenRegister ==
    \E token \in Tokens, tokenUser \in Users, bodyUserId \in Users \cup {None},
       d \in DeviceIds, publicKey \in {"k1", "k2"} :
         PostRegisterKeys(token, tokenUser, bodyUserId, d, publicKey)

SpecOpenRegister == Init /\ [][NextOpenRegister]_vars

\* ------------------------------------------------------------------ claims

\* C1: under any interleaving of concurrent getUserKeys calls, a stored one-time
\* prekey is returned as oneTimePreKey in at most one caller's bundle.
C1_PreKeyReturnedAtMostOnce ==
    \A dk \in DevKeys : \A i, j \in DOMAIN fetchLog[dk] :
        (i # j /\ fetchLog[dk][i] # 0) => fetchLog[dk][i] # fetchLog[dk][j]

\* the state of C7's scenario: every prekey registered so far is still stored and
\* unexpired, and no call is under way
PoolIntact ==
    /\ Cardinality(prekeys) = nextPreKeyId - 1
    /\ \A k \in prekeys : k.expiresAt > now

KeyIdOf(id) == (CHOOSE k \in prekeys : k.id = id).keyId

\* C7: after N prekeys with distinct keyIds are registered for a device, the first N
\* sequential getUserKeys calls return N pairwise distinct keyIds of the registered
\* set, every later call returns no oneTimePreKey, and no call fails.
C7_SequentialFetchesDrainPool ==
    PoolIntact =>
      /\ \A p \in KeyCallers : gk[p].pc # "failed"
      /\ \A dk \in DevKeys :
           LET L == fetchLog[dk]
               N == Cardinality(PoolOf(dk[1], dk[2]))
           IN  \A i \in DOMAIN L :
                 /\ i <= N => /\ L[i] \in {k.id : k \in PoolOf(dk[1], dk[2])}
                              /\ \A j \in 1..(i - 1) : KeyIdOf(L[j]) # KeyIdOf(L[i])
                 /\ i > N => L[i] = 0

\* C7 witness: two prekeys were registered, three calls returned, the first two with
\* distinct keys handed to distinct requesters and the third with none
C7_Witness ==
    /\ PoolIntact
    /\ \E dk \in DevKeys :
         /\ Cardinality(PoolOf(dk[1], dk[2])) = 2
         /\ Len(fetchLog[dk]) = 3
         /\ fetchLog[dk][3] = 0
         /\ {k.usedBy : k \in PoolOf(dk[1], dk[2])} = KeyCallers

\* the keyIds of a batch that are not yet stored for the device
C9_Fresh(u, d, b) ==
    Cardinality({kid \in KeyIds : /\ \E i \in DOMAIN b : b[i].keyId = kid
                                  /\ \A k \in prekeys :
                                       ~(k.userId = u /\ k.deviceId = d /\ k.keyId = kid)})

AllBatches == Batches("k1") \cup Batches("k2")

\* C9 as stated: registering a batch of N prekeys increases total by N and available
\* by at most N.
C9_TotalGrowsByN ==
    [][\A u \in KeyOwners, d \in PoolDevices, b \in AllBatches :
         (UploadPreKeys(u, d, b) \/ RegisterDeviceKeys(u, d, "k1", "k1", b)) =>
            /\ getPreKeyStats(u, d).total' = getPreKeyStats(u, d).total + Len(b)
            /\ getPreKeyStats(u, d).available' <= getPreKeyStats(u, d).available + Len(b)]_vars

\* C9 amended: registering a batch of N prekeys increases total and available by the
\* number of distinct keyIds of the batch that are not yet stored for the device,
\* which is N when nothing collides and less otherwise.
C9_TotalGrowsByFreshKeyIds ==
    [][\A u \in KeyOwners, d \in PoolDevices, b \in AllBatches :
         (UploadPreKeys(u, d, b) \/ RegisterDeviceKeys(u, d, "k1", "k1", b)) =>
            /\ getPreKeyStats(u, d).total' = getPreKeyStats(u, d).total + C9_Fresh(u, d, b)
            /\ getPreKeyStats(u, d).available'
                 = getPreKeyStats(u, d).available + C9_Fresh(u, d, b)
            /\ C9_Fresh(u, d, b) <= Len(b)]_vars

\* C9 witness: a batch of two prekeys was registered and only one prekey document
\* was ever stored
C9_Witness ==
    /\ regCount = 2
    /\ nextPreKeyId = 2
    /\ Cardinality(prekeys) = 1

AllPayloads == UNION {SendPayloads(MessageIds, {None, UnknownUser} \cup Users,
                                   {None} \cup RoomIds, c) : c \in Contents}

\* C2: a sendMessage call whose messageId is already persisted returns the stored
\* record and persists nothing, whatever else the later payload holds (other content,
\* other or missing addressing fields), and the envelopes with the id stay one.
C2_RetryReturnsStoredRecord ==
    [][\A p \in SendSlots, senderId \in Users, d \in DeviceIds, data \in AllPayloads :
         (SmFind(p, senderId, d, data) /\ findOne(data.messageId) # {}) =>
            /\ smRes'.slot = p
            /\ smRes'.status = "ok"
            /\ smRes'.message \in findOne(data.messageId)
            /\ messages' = messages
            /\ Cardinality(findOne(data.messageId)) = 1]_vars

\* C10: of concurrent sendMessage calls with one messageId, the one whose
\* Message.create comes second also returns the persisted envelope instead of
\* failing, and exactly one envelope with the id is persisted.
C10_ConcurrentSendsAllReturn ==
    [][\A p \in SendSlots :
         SmCreate(p) =>
            /\ smRes'.slot = p
            /\ smRes'.status = "ok"
            /\ smRes'.message.messageId = sm[p].data.messageId
            /\ smRes'.message \in messages'
            /\ Cardinality({m \in messages' : m.messageId = sm[p].data.messageId}) = 1]_vars

\* the recipientIds of the status entries of a message, in order
RecipientsOf(m) == [i \in DOMAIN m.recipientStatuses |-> m.recipientStatuses[i].recipientId]

\* C6: the recipientStatuses of a group envelope hold exactly one entry, with status
\* sent, for every participant the room had at send time other than the sender, and
\* none for the sender; addParticipant and removeParticipant on the room afterwards
\* never add or remove entries of the persisted envelope.
C6_OneEntryPerParticipant ==
    /\ [](\A m \in messages :
            m.messageType = "group" =>
              /\ \A u \in m.addressedTo :
                    Cardinality({i \in DOMAIN m.recipientStatuses :
                                   m.recipientStatuses[i].recipientId = u}) = 1
              /\ \A i \in DOMAIN m.recipientStatuses :
                    /\ m.recipientStatuses[i].recipientId \in m.addressedTo \ {m.senderId}
                    /\ m.recipientStatuses[i].status = "sent")
    /\ [][\A m \in messages :
            \E n \in messages' : n.id = m.id /\ RecipientsOf(n) = RecipientsOf(m)]_vars

\* the document with _id id among ms
StatusOf(ms, id) == (CHOOSE m \in ms : m.id = id)

\* C3: the delivery status of an envelope never regresses: once the direct status
\* field or a per-recipient entry of a group envelope is read, no later
\* acknowledgement takes it back to delivered.
C3_ReadNeverRegresses ==
    [][\A m \in messages :
         LET n == StatusOf(messages', m.id)
         IN  /\ m.deliveryStatus = "read" => n.deliveryStatus = "read"
             /\ \A i \in DOMAIN m.recipientStatuses :
                   m.recipientStatuses[i].status = "read" =>
                     n.recipientStatuses[i].status = "read"]_vars

\* C5: in a room [A, B, C], when B's markRead of a group message of A settles, for
\* whichever device B calls from, B's status entry is read and C's entry is still
\* sent.
C5_GroupReadIsPerRecipient ==
    [][\A loaded \in messages :
         (/\ AkSave("B", loaded)
          /\ ak["B"].status = "read"
          /\ loaded.messageType = "group"
          /\ loaded.senderId = "A"
          /\ loaded.addressedTo = {"B", "C"}
          /\ \A i \in DOMAIN loaded.recipientStatuses :
                loaded.recipientStatuses[i].status = "sent") =>
            LET n == StatusOf(messages', loaded.id)
            IN  \A i \in DOMAIN n.recipientStatuses :
                  /\ n.recipientStatuses[i].recipientId = "B" =>
                        n.recipientStatuses[i].status = "read"
                  /\ n.recipientStatuses[i].recipientId = "C" =>
                        n.recipientStatuses[i].status = "sent"]_vars

\* the envelopes userId is due from lastSyncTime on: not deleted, created after
\* lastSyncTime, and addressed to userId when they were sent (the recipient of a
\* direct message, the roster minus the sender of a group message)
C8_Due(userId, lastSyncTime) ==
    {m \in messages : ~m.isDeleted /\ m.createdAt > lastSyncTime /\ userId \in m.addressedTo}

\* C8: getOfflineMessages(userId, since) returns exactly the non-deleted envelopes
\* created after since that are addressed to userId, as stored, in ascending
\* creation order and cut after the oldest OfflineLimit of them, never an envelope
\* addressed to someone else; an envelope is stored with status sent and its status
\* changes only when an acknowledgement settles, to the acknowledged status.
C8_OfflineMessagesAreTheDue ==
    /\ [][LET userId == offRes'.userId
               lastSyncTime == offRes'.lastSyncTime
           IN  GetOfflineMessages(userId, lastSyncTime) =>
              LET res == offRes'.messages
                  due == C8_Due(userId, lastSyncTime)
              IN  /\ \A i \in DOMAIN res : res[i] \in due
                  /\ \A i, j \in DOMAIN res : i < j =>
                        res[i] # res[j] /\ res[i].createdAt <= res[j].createdAt
                  /\ Len(res) = IF Cardinality(due) < OfflineLimit
                                THEN Cardinality(due) ELSE OfflineLimit
                  /\ \A m \in due \ Range(res) :
                        \A i \in DOMAIN res : res[i].createdAt <= m.createdAt]_vars
    /\ [][\A n \in messages' :
            IF \E m \in messages : m.id = n.id
            THEN n.deliveryStatus # StatusOf(messages, n.id).deliveryStatus =>
                   \E p \in AckCallers : \E loaded \in ak[p].loaded :
                     /\ AkSave(p, loaded)
                     /\ loaded.id = n.id
                     /\ n.deliveryStatus = ak[p].status
            ELSE n.deliveryStatus = "sent"]_vars

\* C8 witness: three envelopes addressed to B are stored, and B's fetch returned the
\* oldest two in creation order: a direct message B had marked delivered, then a
\* group message still sent
C8_Witness ==
    /\ offRes.userId = "B"
    /\ Len(offRes.messages) = 2
    /\ offRes.messages[1].messageType = "direct"
    /\ offRes.messages[1].deliveryStatus = "delivered"
    /\ offRes.messages[2].messageType = "group"
    /\ offRes.messages[2].deliveryStatus = "sent"
    /\ offRes.messages[1].createdAt < offRes.messages[2].createdAt
    /\ Cardinality(C8_Due("B", offRes.lastSyncTime)) = 3

\* the offline events published for a user so far
OfflineEvents(userId) ==
    {i \in DOMAIN published :
       published[i].userId = userId /\ published[i].status = "offline"}

\* the user's two devices were announced online before any offline event of the user
BothOnlineFirst(userId) ==
    \A d \in DeviceIds :
      \E i \in DOMAIN published :
        /\ published[i] = [userId |-> userId, deviceId |-> d, status |-> "online"]
        /\ \A j \in OfflineEvents(userId) : i < j

\* C4: while a socket of another device of the user is open, the close handling of
\* a socket publishes no offline presence event for the user; once the sockets of
\* both devices, connected together, are closed and handled, exactly one offline
\* event was published.
C4_OfflineOnlyOnLastDevice ==
    /\ [][\A u \in WsUsers, d \in DeviceIds :
            published' = Append(published, [userId |-> u, deviceId |-> d,
                                            status |-> "offline"]) =>
              \A w \in Socks : ~(/\ socks[w].userId = u
                                  /\ socks[w].deviceId # d
                                  /\ socks[w].pc = "open")]_vars
    /\ [](\A u \in WsUsers :
            (/\ \A w \in Socks : socks[w].userId = u /\ socks[w].pc = "closed"
             /\ BothOnlineFirst(u)) =>
               Cardinality(OfflineEvents(u)) = 1)

\* C11: once a user's identityPublicKey is set, no later or concurrent
\* registerDeviceKeys call, from any device and with any identityPublicKey value,
\* changes it; of concurrent first registrations one supplied value is stored and
\* it is never replaced by another.
C11_IdentityKeyFirstWriterWins ==
    [][\A u \in Users : identityKeys[u] # None => identityKeys'[u] = identityKeys[u]]_vars

\* the (keyId, publicKey) pairs of the prekeys of a device that can be claimed
AvailableKeys(u, d) ==
    {<<k.keyId, k.publicKey>> : k \in {x \in PoolOf(u, d) : IsAvailable(x)}}

\* C12: when rotateDeviceKeys completes with a non-empty list of new one-time
\* prekeys, the available (unused, unexpired) prekeys of the device are exactly the
\* supplied ones: no previously unused prekey remains and every supplied prekey is
\* present and claimable.
C12_RotationReplacesPool ==
    [][\A u \in KeyOwners, d \in PoolDevices :
         (rt.userId = u /\ rt.deviceId = d /\ RtRegister) =>
            AvailableKeys(u, d)'
              = {<<rt.preKeys[i].keyId, rt.preKeys[i].publicKey>> : i \in DOMAIN rt.preKeys}]_vars

\* C13: revocation is terminal. No step of register, rotate, login, logout, heartbeat
\* or revoke sets isRevoked of a device back to false; a getUserKeys call whose
\* Device.find runs while the device is revoked leaves the device out of the bundle it
\* returns; and a WebSocket handshake whose authentication settles while the device
\* is revoked is rejected and its socket does not enter the registry.
C13_RevocationIsTerminal ==
    [][/\ \A dk \in DevKeys : devices[dk].isRevoked => devices'[dk].isRevoked
       /\ \A p \in KeyCallers, d \in DeviceIds :
            /\ (gk[p].pc = "idle" /\ gk'[p].pc # "idle"
                   /\ devices[<<gk'[p].target, d>>].isRevoked) => gk'[p].ph[d] = "off"
            /\ (gk[p].pc # "idle" /\ gk[p].ph[d] = "off") =>
                  /\ gk'[p].pc # "idle" => gk'[p].ph[d] = "off"
                  /\ gk'[p].pc = "idle" =>
                        fetchLog'[<<gk[p].target, d>>] = fetchLog[<<gk[p].target, d>>]
       /\ \A w \in Socks :
            (socks[w].pc = "auth" /\ socks'[w].pc # "auth"
               /\ devices[<<socks[w].userId, socks[w].deviceId>>].isRevoked) =>
              /\ socks'[w].pc = "rejected"
              /\ clients' = clients]_vars

\* C13 witness: the device d1 of A is revoked and was made active again afterwards
\* (by a login or a registration), a bundle of A was returned without it, and a
\* handshake for it was rejected
C13_Witness ==
    /\ devices[<<"A", "d1">>].isRevoked
    /\ devices[<<"A", "d1">>].isActive
    /\ Len(fetchLog[<<"A", "d2">>]) > Len(fetchLog[<<"A", "d1">>])
    /\ socks["w1"].pc = "rejected"
    /\ socks["w1"].deviceId = "d1"

\* C14: a handshake whose token is missing or invalid, or names an inactive user or a
\* revoked or unknown device, is closed with code 4001, and its socket is never in
\* the registry, no presence marker is written for it and no presence event is
\* published for it, before the rejection or after.
C14_FailedHandshakeLeavesNoTrace ==
    /\ [][\A w \in Socks :
            (/\ socks[w].pc = "auth"
             /\ socks'[w].pc # "auth"
             /\ \/ socks[w].token # "valid"
                \/ ~users[socks[w].userId].isActive
                \/ ~devices[<<socks[w].userId, socks[w].deviceId>>].exists
                \/ devices[<<socks[w].userId, socks[w].deviceId>>].isRevoked) =>
              /\ socks'[w].pc = "rejected"
              /\ socks'[w].code = 4001]_vars
    /\ [][\A w \in Socks : socks[w].pc = "rejected" => socks'[w].pc = "rejected"]_vars
    /\ [](\A w \in Socks : socks[w].pc \in {"auth", "rejected"} =>
              /\ ~Registered(w)
              /\ socks[w].did = {})

\* C14 witness: a socket with an invalid token for a registered device and a socket
\* with a valid token of the deactivated user were both rejected, after their peers
\* answered the close frame
C14_Witness ==
    /\ socks["w1"].pc = "rejected"
    /\ socks["w1"].token = "invalid"
    /\ devices[<<socks["w1"].userId, socks["w1"].deviceId>>].exists
    /\ ~devices[<<socks["w1"].userId, socks["w1"].deviceId>>].isRevoked
    /\ socks["w2"].pc = "rejected"
    /\ socks["w2"].token = "valid"
    /\ socks["w2"].userId = "C"
    /\ devices[<<"C", socks["w2"].deviceId>>].exists
    /\ ~socks["w2"].closing

\* C15: a socket that is in the registry for its (userId, deviceId) stays there for as
\* long as it is open, unless a newer connection for the key authenticates and takes
\* its place: whatever happens to a socket it displaced, no step removes the entry,
\* deletes the presence marker of the device or publishes an offline event for it.
C15_NewerSocketStaysRegistered ==
    [][\A w \in Socks :
         LET dk == <<socks[w].userId, socks[w].deviceId>>
         IN  (/\ socks[w].pc # "free"
              /\ clients[socks[w].proc][dk] = w
              /\ socks[w].alive
              /\ socks'[w].alive) =>
               /\ clients'[socks[w].proc][dk] \in {w} \cup {x \in Socks : socks[x].pc = "auth"}
               /\ presence[dk] # NoDate => presence'[dk] # NoDate \/ presence[dk] <= now
               /\ \A i \in DOMAIN published' :
                    (i > Len(published) /\ published'[i].userId = dk[1]
                       /\ published'[i].deviceId = dk[2]) =>
                      published'[i].status # "offline"]_vars

\* C16: after a shutdown signal the process exits, whatever the sockets do: the
\* forced-exit timer takes effect even when a socket never closes or the callback of
\* wss.close never runs.
C16_ExitsAfterSignal ==
    (sd["p1"].pc # "running") ~> (sd["p1"].pc = "exited")

\* C17: the event of a message accepted from a frame reaches the subscriber of every
\* process, and a process that handles the event sends a new_message frame with the
\* message to each OPEN socket of its registry that belongs to the direct recipient,
\* or for a group message to a recipient of the snapshot other than the sender of the
\* event, and to no other socket.
C17_FanOutReachesRecipientsOnly ==
    [][/\ \A w \in Socks :
            (chat[w].pc = "publish" /\ chat'[w].pc # "publish") =>
              \A proc \in Procs :
                 /\ Len(bus'[proc]) = Len(bus[proc]) + 1
                 /\ bus'[proc][Len(bus'[proc])].message = chat[w].message
                 /\ bus'[proc][Len(bus'[proc])].senderId = socks[w].userId
       /\ \A proc \in Procs :
            (bus[proc] # <<>> /\ bus'[proc] = Tail(bus[proc])) =>
              LET m == Head(bus[proc]).message
                  to == IF m.messageType = "direct" THEN {m.recipientId}
                        ELSE {m.recipientStatuses[i].recipientId :
                                i \in DOMAIN m.recipientStatuses}
                               \ {Head(bus[proc]).senderId}
              IN  \A w \in Socks :
                     IF /\ socks[w].alive
                        /\ socks[w].userId \in to
                        /\ clients[proc][<<socks[w].userId, socks[w].deviceId>>] = w
                     THEN /\ Len(frames'[w]) > Len(frames[w])
                          /\ SubSeq(frames'[w], 1, Len(frames[w])) = frames[w]
                          /\ \A i \in (Len(frames[w]) + 1)..Len(frames'[w]) :
                               frames'[w][i] = m.messageId
                     ELSE frames'[w] = frames[w]]_vars

\* C17 witness: a group message A sent in a frame was handled by both processes; the
\* socket of B got its frame, the socket of the sender got none
C17_Witness ==
    /\ \E i \in DOMAIN msgEvents :
         /\ msgEvents[i].message.messageType = "group"
         /\ msgEvents[i].senderId = "A"
    /\ \A proc \in Procs : bus[proc] = <<>>
    /\ socks["w1"].userId = "A" /\ socks["w1"].pc = "open" /\ socks["w1"].alive
    /\ socks["w2"].userId = "B" /\ socks["w2"].alive
    /\ socks["w1"].proc # socks["w2"].proc
    /\ frames["w1"] = <<>>
    /\ frames["w2"] # <<>>

\* C18: every envelope sendMessage has persisted, for POST /api/messages/send or for a
\* message frame, has its event published on the 'messages' channel, or the handler
\* that persisted it is about to publish it.
C18_EverySendPublishes ==
    \A m \in messages :
       \/ \E i \in DOMAIN msgEvents : msgEvents[i].message.messageId = m.messageId
       \/ \E w \in Socks : chat[w].pc = "publish" /\ chat[w].message.messageId = m.messageId

\* C19: a direct message sent while the recipient had no connection is pushed to the
\* recipient once it has connected: when the connection of B is set up and nothing of
\* a send is under way, the socket of B has got a new_message frame for every direct
\* message to B.
C19_PushedOnConnect ==
    (socks["w2"].pc = "open" /\ socks["w2"].alive /\ FanoutQuiet) =>
       \A m \in messages :
          (m.messageType = "direct" /\ m.recipientId = "B") =>
             m.messageId \in Range(frames["w2"])

\* C20: deleteMessage by a user that is not the sender of the envelope fails and
\* leaves the Message collection as it is; by the sender it sets isDeleted of the
\* envelope and leaves its other fields but deletedAt, encryptedContent among them,
\* as they are; and no result of getOfflineMessages holds an envelope that is
\* deleted.
C20_OnlySenderSoftDeletes ==
    [][/\ \A messageId \in {"m1", "m2"}, userId \in Users :
            DeleteMessage(messageId, userId) =>
              \A m \in findOne(messageId) :
                 IF m.senderId # userId
                 THEN /\ delRes'.status = "error"
                      /\ messages' = messages
                 ELSE /\ delRes'.status = "ok"
                      /\ messages' = (messages \ {m})
                                        \cup {[m EXCEPT !.isDeleted = TRUE, !.deletedAt = now]}
       /\ (offRes' # offRes /\ offRes' # NoSync) =>
            \A i \in DOMAIN offRes'.messages :
               \A m \in messages :
                  m.messageId = offRes'.messages[i].messageId => ~m.isDeleted]_vars

\* C20 witness: the sender deleted m1, whose content is kept; the request of B to
\* delete m2 failed and m2 is not deleted; B, as a recipient of both, fetched its
\* offline messages from the start and got m2 without m1
C20_Witness ==
    /\ \E m \in findOne("m1") :
         m.isDeleted /\ m.encryptedContent = "c1" /\ OfflineQuery([m EXCEPT !.isDeleted = FALSE], "B", NoDate)
    /\ \E m \in findOne("m2") : ~m.isDeleted
    /\ delRes = [messageId |-> "m2", userId |-> "B", status |-> "error",
                 error |-> "Not authorized to delete this message"]
    /\ offRes.userId = "B"
    /\ offRes.lastSyncTime = NoDate
    /\ {offRes.messages[i].messageId : i \in DOMAIN offRes.messages} = {"m2"}

\* C21: once revokeDevice has completed for a device, no message whose senderDeviceId
\* is the device is persisted and none is published for fan-out, whether it arrives
\* by POST /api/messages/send or on a socket the device opened before the revocation.
C21_RevokedDeviceSendsNothing ==
    [][\A dk \in DevKeys :
         (devices[dk].isRevoked /\ dc["revoke"].pc = "idle") =>
            /\ \A m \in messages' \ messages :
                  <<m.senderId, m.senderDeviceId>> # dk
            /\ \A i \in DOMAIN msgEvents' :
                  i > Len(msgEvents) =>
                     <<msgEvents'[i].message.senderId,
                       msgEvents'[i].message.senderDeviceId>> # dk]_vars

\* C22: markDelivered and markRead are idempotent: a call that repeats the previous
\* call on the envelope (same messageId, recipientId, deviceId and status) leaves the
\* stored envelope exactly as it was, status, deliveredAt and readAt included
C22_MarkIsIdempotent ==
    [][\A m \in messages :
         ( /\ ak["B"].pc = "save" /\ ak'["B"].pc = "idle"
           /\ \E l \in ak["B"].loaded : l.id = m.id
           /\ AlreadyMarked(m, "B", ak["B"].deviceId, ak["B"].status) )
         => m \in messages']_vars

\* C23: bulkUpdateStatus applies its transition to the whole batch at once: in every
\* reachable state either all the envelopes of the batch carry the transition of the
\* call or none of them does
C23_BulkIsAtomic ==
    \A status \in Statuses :
       ak["B"].status = status =>
          \/ \A m \in messages : m.messageId \in BatchIds => AlreadyMarked(m, "B", "d2", status)
          \/ \A m \in messages : m.messageId \in BatchIds => ~AlreadyMarked(m, "B", "d2", status)

\* C24: a sendMessage call that fails persists no envelope, publishes no event on the
\* messages channel, lets no handleChatMessage go on to its publish and message_sent
\* acknowledgement, and gives its error to the caller
C24_FailedSendLeavesNothing ==
    [][SendFails =>
         /\ messages' = messages
         /\ msgEvents' = msgEvents
         /\ bus' = bus
         /\ \A w \in Socks : chat'[w].pc = "publish" => chat[w].pc = "publish"
         /\ smRes'.error # None]_vars

\* a frame of A's socket lost the race for its messageId against the request: the
\* insert was refused, the handler ended and nothing was published
C24_Witness ==
    /\ smRes = Throws("s2", "E11000 duplicate key")
    /\ chat["w1"] = IdleChat
    /\ msgEvents = <<>>
    /\ \E m \in messages : m.encryptedContent = ContentOf("s1")

\* C25: a registerDeviceKeys call with a malformed encoding in a key field (device
\* publicKey, signedPreKey.publicKey, identityPublicKey, a prekey's publicKey) creates
\* or modifies no Device, UserIdentity or OneTimePreKey record in any of its steps
C25_MalformedKeysWriteNothing ==
    [][\A p \in RegSlots :
         (rd[p].pc # "idle" /\ rd'[p] # rd[p] /\ HasMalformedKey(rd[p]))
         => /\ devices' = devices
            /\ identityKeys' = identityKeys
            /\ prekeys' = prekeys]_vars

\* C26: a socket is put into the registry only when, at that moment of its handshake,
\* its device is active (isActive) and not revoked
C26_OnlyActiveDevicesJoin ==
    [][\A w \in Socks :
         ("registry" \in socks'[w].did /\ "registry" \notin socks[w].did)
         => LET dk == <<socks[w].userId, socks[w].deviceId>>
            IN  /\ devices[dk].exists
                /\ devices[dk].isActive
                /\ ~devices[dk].isRevoked]_vars

\* C27: no step of a registerDeviceKeys or rotateDeviceKeys call whose device is
\* revoked changes the Device record (publicKey, signedPreKey, isActive) or the pool
\* of one-time prekeys of that device
C27_RevokedDeviceKeysFrozen ==
    [][\A dk \in DevKeys :
         ( /\ devices[dk].exists /\ devices[dk].isRevoked
           /\ \/ \E p \in RegSlots : /\ rd[p].pc # "idle" /\ rd'[p] # rd[p]
                                     /\ <<rd[p].userId, rd[p].deviceId>> = dk
              \/ rt.pc # "idle" /\ rt' # rt /\ <<rt.userId, rt.deviceId>> = dk )
         => /\ devices'[dk] = devices[dk]
            /\ PoolOf(dk[1], dk[2])' = PoolOf(dk[1], dk[2])]_vars

\* C28 (as stated): a connection whose peer stopped responding is terminated and out
\* of the registry within one heartbeat interval: the second firing of the timer
\* after it stopped responding, which comes more than one interval after that
\* moment, does not find it any more
C28_SilentPeerGoneWithinOneInterval ==
    \A w \in Socks : socks[w].silent => socks[w].missed <= 1

\* C28 (amended): a connection whose peer stopped responding is terminated at the
\* first probe that follows a probe it failed to answer, which is the second firing
\* after it stopped responding at the latest (up to two heartbeat intervals); until
\* its close handler has run, its registry entry stays
C28_SilentPeerGoneWithinTwoIntervals ==
    \A w \in Socks :
       socks[w].silent =>
          /\ socks[w].missed <= 2
          /\ socks[w].missed = 2 => ~socks[w].alive
          /\ (socks[w].alive /\ socks[w].missed = 1) => socks[w].isAlive = "false"
          /\ (~socks[w].alive /\ Registered(w)) => socks[w].pc = "open"

\* the peer stopped responding after it had answered the last ping: the first firing
\* pinged it in vain and the second one terminated it
C28_Witness ==
    \E w \in Socks : /\ socks[w].silent /\ socks[w].missed = 2
                     /\ ~socks[w].alive /\ ~Registered(w)

\* C29: every socket displaced from the registry by a newer connection of the same
\* (userId, deviceId) is eventually closed or terminated by the liveness check,
\* whatever its client does, while the heartbeat timer keeps firing
C29_DisplacedSocketIsReaped ==
    \A w \in Socks : Displaced(w) ~> SocketGone(w)

\* C30: in every quiescent state each socket held in the connection registry is open
C30_RegistryHoldsOpenSockets ==
    Quiescent =>
       \A proc \in Procs, dk \in DevKeys :
          clients[proc][dk] # None => socks[clients[proc][dk]].alive

\* C31: registerPreKeys with a batch of which some keyIds are already stored for
\* (userId, deviceId) succeeds (it returns the count of the batch), stores a document
\* for every keyId of the batch that was not stored, with a publicKey of the batch,
\* and leaves every stored prekey as it was (publicKey, isUsed, usedBy, expiresAt)
C31_CollidingKeysKeepStored ==
    [][\A u \in KeyOwners, d \in PoolDevices, b \in AllBatches :
         (UploadPreKeys(u, d, b) \/ RegisterDeviceKeys(u, d, "k1", "k1", b)) =>
            LET stored == {k.keyId : k \in PoolOf(u, d)}
                sent   == {b[i].keyId : i \in DOMAIN b}
            IN  /\ b # <<>> => regCount' = Len(b)
                /\ \A k \in PoolOf(u, d) : k \in prekeys'
                /\ \A x \in sent \ stored : \E k \in prekeys' :
                     /\ k.userId = u /\ k.deviceId = d /\ k.keyId = x
                     /\ \E i \in DOMAIN b : b[i].keyId = x /\ b[i].publicKey = k.publicKey
                /\ \A k \in prekeys' \ prekeys :
                     k.userId = u /\ k.deviceId = d /\ k.keyId \in sent \ stored]_vars

\* a batch of two keys was uploaded over a pool that held keyId 1, already used: the
\* stored key kept its publicKey and its use, keyId 2 came in with the new publicKey
C31_Witness ==
    /\ regCount = 2
    /\ \E k \in prekeys : k.keyId = 1 /\ k.publicKey = "k1" /\ k.isUsed /\ k.usedBy # None
    /\ \E k \in prekeys : k.keyId = 2 /\ k.publicKey = "k2" /\ ~k.isUsed

\* C32: in every quiescent state the persisted isOnline flag of a user is true if and
\* only if a presence marker of one of its devices exists
C32_OnlineIffMarker ==
    Quiescent => \A u \in Users : users[u].isOnline <=> HasMarker(u)

\* the typing and stop_typing frames of user u for the conversation, in flight or
\* published: their place in the order of arrival and whether they were typing frames
TypingFramesOf(conversationType, conversationId, u) ==
    {[seq |-> fr[f].seq, isTyping |-> fr[f].type = "typing"] :
        f \in {g \in FrameSlots : /\ fr[g].type \in {"typing", "stop_typing"}
                                  /\ fr[g].conversationType = conversationType
                                  /\ fr[g].conversationId = conversationId
                                  /\ socks[fr[g].w].userId = u}}
      \cup {[seq |-> sideEvents[i].seq, isTyping |-> sideEvents[i].isTyping] :
              i \in {j \in DOMAIN sideEvents : /\ sideEvents[j].channel = "typing"
                                               /\ sideEvents[j].conversationType = conversationType
                                               /\ sideEvents[j].conversationId = conversationId
                                               /\ sideEvents[j].userId = u}}

\* the last frame of u for the conversation was a stop_typing frame
StoppedLast(conversationType, conversationId, u) ==
    LET fs == TypingFramesOf(conversationType, conversationId, u)
    IN  /\ fs # {}
        /\ \A x \in fs : x.seq = Max({y.seq : y \in fs}) => ~x.isTyping

\* C33: once a stop_typing frame is taken up, and for as long as no later typing
\* frame of the user for the conversation arrives, the typing marker is absent and
\* getTyping does not list the user; getTyping lists a user only while the typing
\* frame that wrote the marker is younger than TYPING_TIMEOUT
C33_TypingMarkerIsCurrent ==
    \A k \in TypingKeys :
       /\ StoppedLast(k[1], k[2], k[3]) =>
             /\ typing[k] = NoMarker
             /\ k[3] \notin getTyping(k[2], k[1])
       /\ k[3] \in getTyping(k[2], k[1]) =>
             /\ typing[k].at # NoDate
             /\ now - typing[k].at < TypingTimeout

\* C33 witness: the stop_typing frame of a user who was typing has been handled to
\* its end, and the marker of another conversation has run out
C33_Witness ==
    /\ \A f \in FrameSlots : fr[f].pc = "idle"
    /\ \E k \in TypingKeys :
          /\ StoppedLast(k[1], k[2], k[3])
          /\ \E x \in TypingFramesOf(k[1], k[2], k[3]) : x.isTyping
    /\ \E k \in TypingKeys : typing[k].at # NoDate /\ ~Live(typing[k])

\* handleConnection has yet to send the connected frame of the connection
BeforeConnected(w) == socks[w].pc \in {"auth", "setEx", "dbOnline", "pubOnline", "connected"}

\* C34: no new_message, receipt or typing frame is sent on a socket whose connected
\* frame has yet to be sent
C34_ConnectedFrameComesFirst ==
    [][\A w \in Socks :
         (frames'[w] # frames[w] \/ sideFrames'[w] # sideFrames[w]) => ~BeforeConnected(w)]_vars

\* the receipt frames of the socket of (userId, deviceId) for the message have all
\* been handled, and the one that arrived last carried the status
LastReceipt(userId, deviceId, messageId, status) ==
    LET mine == {i \in DOMAIN sideEvents : /\ sideEvents[i].channel = "receipts"
                                           /\ sideEvents[i].userId = userId
                                           /\ sideEvents[i].deviceId = deviceId
                                           /\ sideEvents[i].messageId = messageId}
    IN  /\ \A f \in FrameSlots : fr[f].pc = "idle"
        /\ \E i \in mine : /\ sideEvents[i].type = status
                           /\ \A j \in mine : sideEvents[j].seq <= sideEvents[i].seq

\* C35: the frames of a socket take effect in the order they arrive in: their events
\* are published in that order, and once a delivery_receipt followed by a
\* read_receipt of the same socket have been handled the envelope is read
C35_FramesTakeEffectInOrder ==
    /\ \A i, j \in DOMAIN sideEvents :
          (/\ i < j
           /\ sideEvents[i].userId = sideEvents[j].userId
           /\ sideEvents[i].deviceId = sideEvents[j].deviceId)
             => sideEvents[i].seq <= sideEvents[j].seq
    /\ \A m \in messages :
          LastReceipt("B", "d2", m.messageId, "read") => m.deliveryStatus = "read"

\* C37: markDelivered / markRead called for a user who is not the recipientId of a
\* direct envelope leaves its deliveryStatus, deliveredAt and readAt as they were
C37_OnlyRecipientAcknowledges ==
    [][\A f \in FrameSlots :
         (/\ fr[f].pc = "save"
          /\ fr'[f].pc = "publish")
            => \A m \in messages :
                 (/\ m.messageId = fr[f].messageId
                  /\ m.messageType = "direct"
                  /\ m.recipientId # socks[fr[f].w].userId)
                   => \E n \in messages' : /\ n.id = m.id
                                           /\ n.deliveryStatus = m.deliveryStatus
                                           /\ n.deliveredAt = m.deliveredAt
                                           /\ n.readAt = m.readAt]_vars

\* C36: a delivered_receipt or read_receipt frame for a message is sent only to
\* sockets of the sender of the message, and a typing frame for a room only to
\* sockets of participants of the room
C36_ReceiptsAndTypingReachParties ==
    \A w \in Socks : \A i \in DOMAIN sideFrames[w] :
       LET frame == sideFrames[w][i]
       IN  /\ frame.type \in {"delivered_receipt", "read_receipt"} =>
                \A m \in messages :
                   m.messageId = frame.messageId => m.senderId = socks[w].userId
           /\ (frame.type = "typing" /\ frame.roomId # None) =>
                isParticipant(rooms[frame.roomId], socks[w].userId)

\* C38: sendMessage returns a stored envelope only to a caller who is its senderId,
\* and an envelope is published on 'messages' only on behalf of its sender
C38_StoredEnvelopeOnlyToSender ==
    /\ smRes.status = "ok" => smRes.message.senderId = CallerOf(smRes.slot)
    /\ \A i \in DOMAIN msgEvents : msgEvents[i].senderId = msgEvents[i].message.senderId

\* C39: once revokeDevice has completed for a device, no new_message, receipt or
\* typing frame is sent to a socket registered for the device
C39_RevokedDeviceReceivesNothing ==
    [][\A w \in Socks :
         (/\ socks[w].userId # None
          /\ devices[<<socks[w].userId, socks[w].deviceId>>].isRevoked
          /\ dc["revoke"].pc = "idle")
            => /\ frames'[w] = frames[w]
               /\ sideFrames'[w] = sideFrames[w]]_vars

\* C40: a request to POST /api/keys/register changes a device of user U, and is
\* answered with tokens for U, only when its requester is authenticated as U
C40_KeysOnlyForAuthenticatedOwner ==
    [][keyRes' # keyRes =>
         /\ \A dk \in DevKeys : devices'[dk] # devices[dk] => keyRes'.requester = dk[1]
         /\ keyRes'.tokens => keyRes'.requester = keyRes'.userId]_vars

====
